---- MODULE Spec2Model ----
(***************************************************************************)
(* The Gitea webhook ingestion pipeline of sentry.integrations.gitea:      *)
(* GiteaWebhookEndpoint.dispatch/post, the push and pull-request handlers, *)
(* the repository resolver, the secret that the API client registers when  *)
(* it creates a repository webhook, and the token refresh of               *)
(* GiteaApiClient.request.  Spec serves requests one after the other,      *)
(* ConcSpec serves two at the same time, ClientSpec drives one API client. *)
(*                                                                         *)
(* Conventions.                                                            *)
(*  - A Python value that may be absent (a missing dict key, a missing     *)
(*    header, None returned by a lookup) is a sequence of length <= 1:     *)
(*    <<>> is "absent", <<v>> is "present with value v".                   *)
(*  - JSON null is the string JNull.                                       *)
(*  - The strings the code splits or formats (the composite secret, the    *)
(*    external identifiers) are sequences of tokens in which every         *)
(*    separator character ("#", ":") is a token of its own; the other      *)
(*    tokens hold no separator.  All other strings are TLA+ strings.       *)
(*  - A digest is a token that spells out what was digested, so two        *)
(*    digests are equal exactly when their inputs are; HMAC first reduces  *)
(*    its key to the key block (hashing a long key, padding with NUL).     *)
(*  - An unhandled exception leaving the view is status 500 (Django's      *)
(*    answer to it); Http404 is status 404.                                *)
(*  - The code runs on Python 2.7 and on Python 3 (it imports six and      *)
(*    __future__); where the interpreters or the clock of the host make a  *)
(*    call end differently, the function takes the runtime as a parameter  *)
(*    and the host of a behaviour is any of them.                          *)
(***************************************************************************)
EXTENDS Integers, Sequences, FiniteSets, TLC

VARIABLES
    integrations,    \* Integration rows (read-only for the pipeline)
    repositories,    \* Repository rows
    commits,         \* Commit rows
    commit_authors,  \* CommitAuthor rows
    pull_requests,   \* PullRequest rows
    last,            \* the last request served, its response and the store before it
    delivered,       \* number of requests served
    workers,         \* the requests being served concurrently (none in Spec)
    client,          \* a GiteaApiClient and the identity it authenticates with
    host             \* the interpreter and the clock of the host the code runs on

vars == <<integrations, repositories, commits, commit_authors, pull_requests, last, delivered,
          workers, client, host>>

\* ------------------------------------------------------------------ bounds

MaxDeliveries == 2

MaxCalls == 4

\* ------------------------------------------------------- program constants

PROVIDER_NAME == "integrations:gitea"

provider == "gitea"

MaxEmailLen == 75

None == <<>>

Some(v) == <<v>>

JNull == "<json-null>"

\* ---------------------------------------------------------- string helpers

\* u"{}<sep>{}".format(a, b) on token strings
Format2(a, sep, b) == a \o <<sep>> \o b

\* str.split(sep): the list of the parts between the separators
RECURSIVE Split(_, _)
Split(s, sep) ==
    IF \A i \in 1..Len(s) : s[i] # sep
    THEN << s >>
    ELSE LET i == CHOOSE i \in 1..Len(s) : s[i] = sep /\ \A j \in 1..(i - 1) : s[j] # sep
         IN  << SubSeq(s, 1, i - 1) >> \o Split(SubSeq(s, i + 1, Len(s)), sep)

\* the NUL character as a token of a token string
NUL == "<NUL>"

\* a lone surrogate (U+D800) as a token of a token string
Surrogate == "<U+D800>"

\* the interpreters the code runs on
Pythons == {"2.7", "3.6", "3.11"}

\* the UTC offset (hours) of the local time of the host
HostOffsets == {0, 1}

\* where the code runs: an interpreter on a host
Runtimes == [python : Pythons, utcoffset : HostOffsets]

\* the UTF-8 codec refuses a lone surrogate, in str.encode and in bytes.decode
\* (Python 3; the codec of Python 2 encodes and decodes it)
StrictSurrogates(runtime) == runtime.python # "2.7"

\* int() refuses a numeral of more digits than its limit (Python 3.11; Python 2.7
\* and 3.6 convert any number of digits)
LimitsIntDigits(runtime) == runtime.python = "3.11"

\* datetime.astimezone takes a datetime without an offset as local time of the
\* host (Python 3.6 and later; before, it raises ValueError)
NaiveIsLocal(runtime) == runtime.python # "2.7"

\* hashlib.sha256().block_size: the length in bytes of the key block of HMAC-SHA256
BlockSize == 64

\* s begins with the characters of prefix
HasPrefix(s, prefix) == Len(s) >= Len(prefix) /\ SubSeq(s, 1, Len(prefix)) = prefix

\* the length in bytes of a token: a surrogate is encoded in 3 bytes (where it can
\* be encoded), a raw SHA-256 digest has 32 bytes, the
\* hexadecimal text of a SHA-1 digest 40, any other token one byte per character
TokenLen(t) ==
    IF t = NUL THEN 1
    ELSE IF t = Surrogate THEN 3
    ELSE IF HasPrefix(t, "sha256(") THEN 32
    ELSE IF HasPrefix(t, "sha1(") THEN 40
    ELSE Len(t)

\* len(key) of a token string
RECURSIVE ByteLen(_)
ByteLen(s) == IF s = <<>> THEN 0 ELSE TokenLen(Head(s)) + ByteLen(Tail(s))

\* hashlib.sha256(key).digest(): the digest as one token, injective in the key
Sha256Raw(key) == "sha256(" \o ToString(key) \o ")"

\* a key without its trailing NUL bytes: padding with NUL up to the block size
\* makes the keys that differ in trailing NULs the same block
RECURSIVE StripNul(_)
StripNul(s) ==
    IF s # <<>> /\ s[Len(s)] = NUL THEN StripNul(SubSeq(s, 1, Len(s) - 1)) ELSE s

\* the key block of hmac.new(key, ...): a key longer than the block is replaced by
\* its SHA-256 digest, and the key is then padded with NUL bytes to the block size
HmacKey(key) == StripNul(IF ByteLen(key) > BlockSize THEN <<Sha256Raw(key)>> ELSE key)

\* hmac.new(key, msg, sha256).hexdigest(): a digest that is injective in the key
\* block and in the message
HmacHex(key, msg) == [key |-> HmacKey(key), msg |-> msg]

\* django.utils.crypto.constant_time_compare
constant_time_compare(a, b) == a = b

\* sha1_text(hostname + client_id).hexdigest(): the digest of the concatenation as
\* one token, injective in the concatenated text (not in the pair: the two strings
\* are joined without a separator)
Sha1Hex(hostname, client_id) == "sha1(" \o hostname \o client_id \o ")"

\* dateutil.parser.parse(ts).astimezone(timezone.utc); <<>> on ValueError, which
\* parse raises for a string that is no timestamp and astimezone, where it does not
\* take it as local time of the host, for a timestamp without a UTC offset
ParseUtc(ts, runtime) ==
    IF ~ts.iso THEN None
    ELSE IF ts.offset # None THEN Some(ts.local - ts.offset[1])
    ELSE IF NaiveIsLocal(runtime) THEN Some(ts.local - runtime.utcoffset)
    ELSE None

\* ------------------------------------------------------------------ store

\* The durable store as one value (the four tables the handlers touch)
Store(r, c, a, p) ==
    [repositories |-> r, commits |-> c, commit_authors |-> a, pull_requests |-> p]

\* Outcome of a handler call: the store it leaves and how it ended
\* ("ok" = returned, "http404" = raised Http404, "error" = another exception)
Result(db, out) == [db |-> db, out |-> out]

\* RepositoryGet without the provider filter
RepositoryGetAnyProvider(db, organization_id, prov, external_id) ==
    LET found == { r \in db.repositories :
                     /\ r.organization_id = organization_id
                     /\ r.external_id = external_id }
    IN  IF found = {} THEN None ELSE Some(CHOOSE r \in found : TRUE)

\* Repository.objects.get(organization_id=, provider=, external_id=); <<>> on DoesNotExist
RepositoryGet(db, organization_id, prov, external_id) ==
    LET found == { r \in db.repositories :
                     /\ r.organization_id = organization_id
                     /\ r.provider = prov
                     /\ r.external_id = external_id }
    IN  IF found = {} THEN None ELSE Some(CHOOSE r \in found : TRUE)

\* Webhook.get_repo: raise Http404 without a repository name, else the local row or None
get_repo(db, integration, organization, event) ==
    IF event.repository = None \/ event.repository[1].full_name = None
    THEN [raise |-> TRUE, repo |-> None]
    ELSE LET repo_name   == event.repository[1].full_name[1]
             external_id == Format2(integration.metadata.instance, ":", <<repo_name>>)
         IN  [raise |-> FALSE,
              repo  |-> RepositoryGet(db, organization, PROVIDER_NAME, external_id)]

\* The condition of Webhook.update_repo_data (lines 64-68): stored name, url or
\* config["repo"] differ from the event's (which has its html_url here)
RepoNeedsUpdate(repo, event) ==
    LET event_repo == event.repository[1]
    IN  \/ repo.name # event_repo.full_name[1]
        \/ repo.url # event_repo.html_url[1]
        \/ repo.config.repo # Some(event_repo.full_name[1])

\* lines 59-62 of Webhook.update_repo_data: event_repo["html_url"] raises KeyError
\* when the key is missing (full_name has been read by get_repo)
RepoReadsRaise(event) == event.repository[1].html_url = None

\* update_repo_data that refreshes the name and leaves the url as stored
update_repo_data_name_only(db, repo, event) ==
    LET event_repo == event.repository[1]
        updated(r) == [r EXCEPT !.name = event_repo.full_name[1],
                                !.config = [repo.config EXCEPT
                                               !.path = Some(event_repo.full_name[1])]]
    IN  IF RepoReadsRaise(event) THEN Result(db, "error")
        ELSE IF RepoNeedsUpdate(repo, event)
        THEN Result([db EXCEPT !.repositories =
                        { IF r.id = repo.id THEN updated(r) ELSE r : r \in @ }], "ok")
        ELSE Result(db, "ok")

\* Webhook.update_repo_data: KeyError ("error") when the event has no html_url;
\* else, when the object read by get_repo differs from the event,
\* repo.update(name=, url=, config=dict(repo.config, path=)) writes these three
\* columns of the row of that primary key
update_repo_data(db, repo, event) ==
    LET event_repo == event.repository[1]
        updated(r) == [r EXCEPT !.name = event_repo.full_name[1],
                                !.url = event_repo.html_url[1],
                                !.config = [repo.config EXCEPT
                                               !.path = Some(event_repo.full_name[1])]]
    IN  IF RepoReadsRaise(event) THEN Result(db, "error")
        ELSE IF RepoNeedsUpdate(repo, event)
        THEN Result([db EXCEPT !.repositories =
                        { IF r.id = repo.id THEN updated(r) ELSE r : r \in @ }], "ok")
        ELSE Result(db, "ok")

\* CommitAuthor row of (organization, email), if any
AuthorOf(db, organization_id, email) ==
    { a \in db.commit_authors : a.organization_id = organization_id /\ a.email = email }

\* get_or_create_author as an update_or_create: the name of an existing row is overwritten
update_or_create_author(db, organization_id, email, name) ==
    IF AuthorOf(db, organization_id, email) # {}
    THEN [db EXCEPT !.commit_authors =
             { IF a \in AuthorOf(db, organization_id, email) THEN [a EXCEPT !.name = name]
               ELSE a : a \in @ }]
    ELSE [db EXCEPT !.commit_authors =
             @ \cup {[id |-> Cardinality(@) + 1, organization_id |-> organization_id,
                      email |-> email, name |-> name]}]

\* CommitAuthor.objects.get_or_create(organization_id=, email=, defaults={"name": name})
get_or_create_author(db, organization_id, email, name) ==
    IF AuthorOf(db, organization_id, email) # {}
    THEN db
    ELSE [db EXCEPT !.commit_authors =
             @ \cup {[id |-> Cardinality(@) + 1, organization_id |-> organization_id,
                      email |-> email, name |-> name]}]

\* the id of the row get_or_create returns
AuthorId(db, organization_id, email) ==
    (CHOOSE a \in AuthorOf(db, organization_id, email) : TRUE).id

\* CommitCreate without the unique (repository_id, key): every create writes a row
CommitCreateNoUnique(db, repository_id, organization_id, key, message, author, date_added) ==
    [db EXCEPT !.commits =
        @ \cup {[id |-> Cardinality(@) + 1, repository_id |-> repository_id,
                 organization_id |-> organization_id, key |-> key,
                 message |-> message, author |-> author, date_added |-> date_added]}]

\* CommitCreate as an upsert: the row of an existing (repository_id, key) is overwritten
CommitUpsert(db, repository_id, organization_id, key, message, author, date_added) ==
    [db EXCEPT !.commits =
        { c \in @ : ~(c.repository_id = repository_id /\ c.key = key) }
        \cup {[id |-> IF \E c \in @ : c.repository_id = repository_id /\ c.key = key
                      THEN (CHOOSE c \in @ : c.repository_id = repository_id /\ c.key = key).id
                      ELSE Cardinality(@) + 1,
                repository_id |-> repository_id,
                organization_id |-> organization_id, key |-> key,
                message |-> message, author |-> author, date_added |-> date_added]}]

\* Commit.objects.create inside transaction.atomic(), IntegrityError swallowed:
\* (repository_id, key) is unique, a second row for it is not written
CommitCreate(db, repository_id, organization_id, key, message, author, date_added) ==
    IF \E c \in db.commits : c.repository_id = repository_id /\ c.key = key
    THEN db
    ELSE [db EXCEPT !.commits =
             @ \cup {[id |-> Cardinality(@) + 1, repository_id |-> repository_id,
                      organization_id |-> organization_id, key |-> key,
                      message |-> message, author |-> author, date_added |-> date_added]}]

\* PullRequest.create_or_save(organization_id=, repository_id=, key=, values=...),
\* IntegrityError swallowed: update the row of the key, or create it
create_or_save(db, organization_id, repository_id, key, values) ==
    LET same == { p \in db.pull_requests :
                    /\ p.organization_id = organization_id
                    /\ p.repository_id = repository_id
                    /\ p.key = key }
        row(id) == [id |-> id, organization_id |-> organization_id,
                    repository_id |-> repository_id, key |-> key,
                    title |-> values.title, author |-> values.author,
                    message |-> values.message,
                    merge_commit_sha |-> values.merge_commit_sha,
                    date_added |-> values.date_added]
    IN  IF same # {}
        THEN [db EXCEPT !.pull_requests = (@ \ same) \cup { row(p.id) : p \in same }]
        ELSE IF \E p \in db.pull_requests : p.repository_id = repository_id /\ p.key = key
        THEN db
        ELSE [db EXCEPT !.pull_requests = @ \cup {row(Cardinality(@) + 1)}]

\* IntegrationRepositoryProvider.should_ignore_commit(message): the skip marker
should_ignore_commit(message) == message \in {"merge #skipsentry"}

\* --------------------------------------------------------------- handlers

\* webhooks.py line 150: the author is thrown out when the email is None or too long
AuthorDiscarded(author_email) ==
    author_email = JNull \/ Len(author_email) > MaxEmailLen

\* The body of the loop of PushEventWebhook.__call__ over event["commits"];
\* cache is the dict "authors" as a set of [email, id] entries.
RECURSIVE PushLoop(_, _, _, _, _, _)
PushLoop(db, repo, organization, entries, cache, runtime) ==
    IF entries = <<>> THEN Result(db, "ok")
    ELSE
    LET commit == Head(entries)
        rest   == Tail(entries)
    IN
    IF commit.message = None THEN Result(db, "error")                 \* KeyError, line 143
    ELSE IF should_ignore_commit(commit.message[1])
    THEN PushLoop(db, repo, organization, rest, cache, runtime)
    ELSE IF commit.author = None \/ commit.author[1].email = None
    THEN Result(db, "error")                                          \* KeyError, line 146
    ELSE
    LET author_email == commit.author[1].email[1]
        discarded    == AuthorDiscarded(author_email)
        cached       == \E e \in cache : e.email = author_email
        lookup       == ~discarded /\ ~cached
    IN
    IF lookup /\ commit.author[1].name = None
    THEN Result(db, "error")                                          \* KeyError, line 156
    ELSE
    LET db1 == IF lookup
               THEN get_or_create_author(db, organization, author_email,
                                         commit.author[1].name[1])
               ELSE db
        author == IF discarded THEN None
                  ELSE IF cached
                  THEN Some((CHOOSE e \in cache : e.email = author_email).id)
                  ELSE Some(AuthorId(db1, organization, author_email))
        cache1 == IF lookup
                  THEN cache \cup {[email |-> author_email, id |-> author[1]]}
                  ELSE cache
    IN
    IF commit.id = None \/ commit.timestamp = None
    THEN Result(db1, "error")                                         \* KeyError, lines 165-168
    ELSE IF ParseUtc(commit.timestamp[1], runtime) = None
    THEN Result(db1, "error")                                         \* ValueError, line 168
    ELSE PushLoop(CommitCreate(db1, repo.id, organization, commit.id[1],
                               commit.message[1], author,
                               ParseUtc(commit.timestamp[1], runtime)[1]),
                  repo, organization, rest, cache1, runtime)

\* PushEventWebhook.__call__
PushEventWebhook(db, integration, organization, event, runtime) ==
    LET got == get_repo(db, integration, organization, event)
    IN  IF got.raise THEN Result(db, "http404")
        ELSE IF got.repo = None THEN Result(db, "ok")
        ELSE IF update_repo_data(db, got.repo[1], event).out # "ok"
        THEN Result(db, "error")                                      \* KeyError, line 62
        ELSE PushLoop(update_repo_data(db, got.repo[1], event).db, got.repo[1], organization,
                      IF event.commits = None THEN <<>> ELSE event.commits[1], {}, runtime)

\* How many of the reads of lines 89-97 succeed before the first KeyError (8 = all):
\* pull_request, number, title, body, created_at, user.username, user.email,
\* merged (and merge_commit_sha when merged)
PullRequestReads(event) ==
    IF event.pull_request = None THEN 0
    ELSE LET pr == event.pull_request[1]
         IN  IF pr.number = None THEN 1
             ELSE IF pr.title = None THEN 2
             ELSE IF pr.body = None THEN 3
             ELSE IF pr.created_at = None THEN 4
             ELSE IF pr.user = None \/ pr.user[1].username = None THEN 5
             ELSE IF pr.user[1].email = None THEN 6
             ELSE IF pr.merged = None \/ (pr.merged[1] /\ pr.merge_commit_sha = None) THEN 7
             ELSE 8

\* Falsy as "author_email is None": the empty string passes
FalsyNoneOnly(author_email) == author_email = JNull

\* "not author_email" (line 104): None and the empty string are falsy
Falsy(author_email) == author_email = JNull \/ author_email = ""

\* MergeCommitSha without the test of "merged"
MergeCommitShaAlways(pr) == pr.merge_commit_sha[1]

\* line 97: the merge commit hash is kept only for a merged pull request
MergeCommitSha(pr) == IF pr.merged[1] THEN pr.merge_commit_sha[1] ELSE JNull

\* PullRequestEventWebhook.__call__
PullRequestEventWebhook(db, integration, organization, event, runtime) ==
    LET got == get_repo(db, integration, organization, event)
    IN
    IF got.raise THEN Result(db, "http404")
    ELSE IF got.repo = None THEN Result(db, "ok")
    ELSE IF update_repo_data(db, got.repo[1], event).out # "ok"
    THEN Result(db, "error")                            \* KeyError, line 62
    ELSE
    LET repo  == got.repo[1]
        db1   == update_repo_data(db, repo, event).db
        reads == PullRequestReads(event)
        author_email == IF reads >= 7 THEN event.pull_request[1].user[1].email[1] ELSE JNull
    IN
    IF Falsy(author_email) THEN Result(db1, "http404")
    ELSE
    LET pr  == event.pull_request[1]
        db2 == get_or_create_author(db1, organization, author_email, pr.user[1].username[1])
    IN
    IF reads < 8 THEN Result(db2, "error")              \* merge_commit_sha is unbound, line 120
    ELSE IF ParseUtc(pr.created_at[1], runtime) = None
    THEN Result(db2, "error")                           \* ValueError, line 121
    ELSE Result(create_or_save(db2, organization, repo.id, pr.number[1],
                    [title |-> pr.title[1],
                     author |-> AuthorId(db2, organization, author_email),
                     message |-> pr.body[1],
                     merge_commit_sha |-> MergeCommitSha(pr),
                     date_added |-> ParseUtc(pr.created_at[1], runtime)[1]]),
                "ok")

\* --------------------------------------------------------------- endpoint

\* GiteaWebhookEndpoint._handlers
HandlerNames == {"push", "pull_request"}

\* handler()(integration, organization, event) for the handler class of that name
HandlerCall(name, db, integration, organization, event, runtime) ==
    IF name = "push"
    THEN PushEventWebhook(db, integration, organization, event, runtime)
    ELSE PullRequestEventWebhook(db, integration, organization, event, runtime)

\* request.body.decode("utf-8") (line 203): the text of the body; <<>> on
\* UnicodeDecodeError (which line 204 does not catch), raised for bytes that are
\* not UTF-8 and, where the codec refuses surrogates, for the bytes of a surrogate
decode(body, runtime) ==
    IF body.bytes = "utf-8" \/ (body.bytes = "surrogate" /\ ~StrictSurrogates(runtime))
    THEN Some([wellformed |-> body.wellformed, limit |-> body.limit, doc |-> body.doc])
    ELSE None

\* json.loads(text) (line 203): the document, or the exception raised:
\* JSONDecodeError for a text that is not JSON; for a JSON text, the recursion
\* error of the parser when it nests too deep, and ValueError when an integer has
\* more digits than int() converts (where int() has such a limit)
json_loads(text, runtime) ==
    IF ~text.wellformed THEN [raise |-> "JSONDecodeError", doc |-> None]
    ELSE IF text.limit = "nesting" THEN [raise |-> "RecursionError", doc |-> None]
    ELSE IF text.limit = "digits" /\ LimitsIntDigits(runtime)
    THEN [raise |-> "ValueError", doc |-> None]
    ELSE [raise |-> "", doc |-> Some(text.doc)]

\* SecretParts that splits on the first '#' only: the rest may hold further '#'
SecretPartsFirstHash(event) ==
    IF event.secret = None THEN None
    ELSE LET parts == Split(event.secret[1], "#")
         IN  IF Len(parts) >= 2
             THEN Some(<<parts[1], SubSeq(event.secret[1], Len(parts[1]) + 2,
                                          Len(event.secret[1]))>>)
             ELSE None

\* lines 210-214: external_id, webhook_secret = event["secret"].split("#");
\* <<>> when the key is missing or the unpacking fails
SecretParts(event) ==
    IF event.secret = None THEN None
    ELSE LET parts == Split(event.secret[1], "#")
         IN  IF Len(parts) = 2 THEN Some(parts) ELSE None

\* secret.encode("utf-8") (line 191): the bytes of the key; <<>> on
\* UnicodeEncodeError, raised for a lone surrogate where the codec refuses it
encode(secret, runtime) ==
    IF StrictSurrogates(runtime) /\ \E i \in 1..Len(secret) : secret[i] = Surrogate
    THEN None
    ELSE Some(secret)

\* check_signature that compares the key of the digest only: the body is not covered
check_signature_key_only(body, secret, signature, runtime) ==
    IF encode(secret, runtime) = None THEN None
    ELSE Some(constant_time_compare(HmacHex(encode(secret, runtime)[1], body).key,
                                    signature.key))

\* check_signature that compares the message of the digest only: the key is not covered
check_signature_body_only(body, secret, signature, runtime) ==
    IF encode(secret, runtime) = None THEN None
    ELSE Some(constant_time_compare(HmacHex(encode(secret, runtime)[1], body).msg,
                                    signature.msg))

\* GiteaWebhookEndpoint.check_signature: <<TRUE>> or <<FALSE>> when it returns, <<>>
\* when secret.encode raises
check_signature(body, secret, signature, runtime) ==
    IF encode(secret, runtime) = None THEN None
    ELSE Some(constant_time_compare(HmacHex(encode(secret, runtime)[1], body), signature))

\* Integration.objects.filter(provider=, external_id=).get(); <<>> on DoesNotExist
IntegrationGet(table, prov, external_id) ==
    LET found == { i \in table : i.provider = prov /\ i.external_id = external_id }
    IN  IF found = {} THEN None ELSE Some(CHOOSE i \in found : TRUE)

\* lines 224-226: the installation the secret names, once the checks have passed
InstallationOfSecret(table, event) ==
    IntegrationGet(table, provider, SecretParts(event)[1][1])[1]

\* The response of the view, the log event that explains it, the checks that were
\* evaluated (in order) and the organizations whose handler was called (in order)
Response(db, status, reason, checks, invoked) ==
    [db |-> db, status |-> status, reason |-> reason, checks |-> checks, invoked |-> invoked]

\* lines 249-251: the loop over integration.organizations.all(); an exception
\* raised by a handler leaves the loop and the view
RECURSIVE FanOut(_, _, _, _, _, _, _, _)
FanOut(db, name, integration, organizations, event, checks, invoked, runtime) ==
    IF organizations = <<>>
    THEN Response(db, 204, "", checks, invoked)
    ELSE LET organization == Head(organizations)
             r == HandlerCall(name, db, integration, organization, event, runtime)
         IN  IF r.out = "ok"
             THEN FanOut(r.db, name, integration, Tail(organizations), event, checks,
                         Append(invoked, organization), runtime)
             ELSE Response(r.db, IF r.out = "http404" THEN 404 ELSE 500,
                           IF r.out = "http404" THEN "Http404" ELSE "unhandled exception",
                           checks, Append(invoked, organization))

\* Authenticate with the signature check moved before the secret parsing
AuthenticateSignatureFirst(table, request, event, runtime) ==
    LET parts == SecretParts(event)
    IN
    IF event.secret # None
       /\ check_signature(request.body, event.secret[1], request.signature[1], runtime) = None
    THEN [reason |-> "unhandled exception", checks |-> <<"signature">>]
    ELSE IF event.secret # None
       /\ ~check_signature(request.body, event.secret[1], request.signature[1], runtime)[1]
    THEN [reason |-> "gitea.webhook.invalid-signature", checks |-> <<"signature">>]
    ELSE IF parts = None
    THEN [reason |-> "gitea.webhook.invalid-secret", checks |-> <<"signature", "secret">>]
    ELSE IF IntegrationGet(table, provider, parts[1][1]) = None
    THEN [reason |-> "gitea.webhook.invalid-organization",
          checks |-> <<"signature", "secret", "integration">>]
    ELSE IF ~constant_time_compare(parts[1][2],
                IntegrationGet(table, provider, parts[1][1])[1].metadata.webhook_secret)
    THEN [reason |-> "gitea.webhook.invalid-token-secret",
          checks |-> <<"signature", "secret", "integration", "token">>]
    ELSE [reason |-> "", checks |-> <<"signature", "secret", "integration", "token">>]

\* lines 208-239 of GiteaWebhookEndpoint.post: the log event of the first check
\* that rejects the request, with the checks evaluated; "" when all pass;
\* "unhandled exception" when check_signature raises (nothing catches it)
Authenticate(table, request, event, runtime) ==
    LET parts == SecretParts(event)
    IN
    IF parts = None
    THEN [reason |-> "gitea.webhook.invalid-secret", checks |-> <<"secret">>]
    ELSE IF check_signature(request.body, event.secret[1], request.signature[1], runtime) = None
    THEN [reason |-> "unhandled exception", checks |-> <<"secret", "signature">>]
    ELSE IF ~check_signature(request.body, event.secret[1], request.signature[1], runtime)[1]
    THEN [reason |-> "gitea.webhook.invalid-signature", checks |-> <<"secret", "signature">>]
    ELSE IF IntegrationGet(table, provider, parts[1][1]) = None
    THEN [reason |-> "gitea.webhook.invalid-organization",
          checks |-> <<"secret", "signature", "integration">>]
    ELSE IF ~constant_time_compare(parts[1][2],
                IntegrationGet(table, provider, parts[1][1])[1].metadata.webhook_secret)
    THEN [reason |-> "gitea.webhook.invalid-token-secret",
          checks |-> <<"secret", "signature", "integration", "token">>]
    ELSE [reason |-> "", checks |-> <<"secret", "signature", "integration", "token">>]

\* lines 241-247: the handler lookup; a missing event header raises KeyError again
\* inside the except clause (line 245), which nothing catches
EventLookup(request) ==
    IF request.event_type = None THEN "unhandled exception"
    ELSE IF request.event_type[1] \notin HandlerNames THEN "gitea.webhook.missing-event"
    ELSE ""

\* GiteaWebhookEndpoint.post
post(db, table, request, runtime) ==
    IF request.signature = None
    THEN Response(db, 400, "gitea.webhook.no-signature", <<"header">>, <<>>)
    ELSE IF decode(request.body, runtime) = None
    THEN Response(db, 500, "unhandled exception", <<"header", "json">>, <<>>)
    ELSE IF json_loads(decode(request.body, runtime)[1], runtime).raise = "JSONDecodeError"
    THEN Response(db, 400, "gitea.webhook.invalid-json", <<"header", "json">>, <<>>)
    ELSE IF json_loads(decode(request.body, runtime)[1], runtime).raise # ""
    THEN Response(db, 500, "unhandled exception", <<"header", "json">>, <<>>)
    ELSE
    LET event == json_loads(decode(request.body, runtime)[1], runtime).doc[1]
        auth  == Authenticate(table, request, event, runtime)
        seen  == <<"header", "json">> \o auth.checks
    IN
    IF auth.reason = "unhandled exception"
    THEN Response(db, 500, auth.reason, seen, <<>>)
    ELSE IF auth.reason # "" THEN Response(db, 400, auth.reason, seen, <<>>)
    ELSE IF EventLookup(request) = "unhandled exception"
    THEN Response(db, 500, "unhandled exception", Append(seen, "event"), <<>>)
    ELSE IF EventLookup(request) # ""
    THEN Response(db, 400, EventLookup(request), Append(seen, "event"), <<>>)
    ELSE FanOut(db, request.event_type[1],
                IntegrationGet(table, provider, SecretParts(event)[1][1])[1],
                IntegrationGet(table, provider, SecretParts(event)[1][1])[1].organizations,
                event, Append(seen, "event"), <<>>, runtime)

\* GiteaWebhookEndpoint.dispatch
dispatch(db, table, request, runtime) ==
    IF request.method # "POST"
    THEN Response(db, 405, "", <<>>, <<>>)
    ELSE post(db, table, request, runtime)

\* ----------------------------------------------------------- registration

\* GiteaIntegrationProvider.build_integration: the external id and the metadata
build_integration(hostname, user_id, client_id) ==
    [external_id |-> <<hostname, ":", user_id>>,
     metadata |-> [instance |-> <<hostname>>,
                   webhook_secret |-> <<Sha1Hex(hostname, client_id)>>]]

\* GiteaApiClient.create_repo_webhook: data["config"]["secret"]
create_repo_webhook(model) ==
    Format2(model.external_id, ":", model.metadata.webhook_secret)

\* GiteaRepositoryProvider.build_repository_config on the data of get_repository_data
build_repository_config(id, organization_id, instance, repo_name, html_url) ==
    [id |-> id, organization_id |-> organization_id, provider |-> PROVIDER_NAME,
     external_id |-> Format2(instance, ":", <<repo_name>>),
     name |-> repo_name, url |-> html_url,
     config |-> [repo |-> Some(repo_name), path |-> None]]

\* ------------------------------------------------------------- API client

\* how ApiClient._request ends: a response, ApiUnauthorized, or another ApiError
RequestOutcomes == {"ok", "ApiUnauthorized", "ApiError"}

\* how GiteaApiClient.refresh_auth ends: a new token is stored ("ok"), or
\* refresh_identity raises: IdentityNotValid (no refresh token or url, or the token
\* endpoint refuses the grant), a connection error of safe_urlopen, AttributeError
\* (the except clause reads e.code when the answer is not JSON), Exception (another
\* error answer), KeyError (an answer without access_token), ValueError,
\* TypeError or OverflowError (an expires_in that int() refuses: a text that is not
\* a number, a null, an infinite float)
RefreshOutcomes ==
    {"ok", "IdentityNotValid", "ConnectionError", "AttributeError", "Exception",
     "KeyError", "ValueError", "TypeError", "OverflowError"}

\* GiteaApiClient.__init__, with the identity's access token (a version number),
\* the number of calls of request and the account of the last one
NewClient ==
    [is_refreshing_token |-> FALSE, access_token |-> 0, calls |-> 0, last |-> None]

\* the account of one call of request: the path, the first outcome, the tokens sent
\* (one per _request), the number of refresh_auth calls, how request ended
\* ("ok" = returned, else the exception raised)
CallAccount(path, first, sent, refreshes, result) ==
    [path |-> path, first |-> first, sent |-> sent, refreshes |-> refreshes, result |-> result]

\* GiteaApiClient.request; first, refresh and retry are what the first _request,
\* refresh_auth and the second _request do when they are reached
client_request(c, path, first, refresh, retry) ==
    LET access_token == c.access_token
        called == [c EXCEPT !.calls = @ + 1]
    IN  IF first # "ApiUnauthorized"
        THEN [called EXCEPT !.last = Some(CallAccount(path, first, <<access_token>>, 0, first))]
        ELSE IF c.is_refreshing_token
        THEN [called EXCEPT !.last = Some(CallAccount(path, first, <<access_token>>, 0,
                                                      "ApiUnauthorized"))]
        ELSE IF refresh # "ok"
        THEN [called EXCEPT !.is_refreshing_token = TRUE,
                            !.last = Some(CallAccount(path, first, <<access_token>>, 1, refresh))]
        ELSE IF retry # "ok"
        THEN [called EXCEPT !.is_refreshing_token = TRUE,
                            !.access_token = @ + 1,
                            !.last = Some(CallAccount(path, first,
                                                      <<access_token, access_token>>, 1, retry))]
        ELSE [called EXCEPT !.is_refreshing_token = FALSE,
                            !.access_token = @ + 1,
                            !.last = Some(CallAccount(path, first,
                                                      <<access_token, access_token>>, 1, "ok"))]

\* ----------------------------------------------------------------- inputs

\* Two installations: the first linked to two organizations, the second to one
Built1 == build_integration("git.example", "1", "cid1")

Built2 == build_integration("git2.example", "7", "cid2")

IntegrationRow(id, built, organizations) ==
    [id |-> id, provider |-> provider, external_id |-> built.external_id,
     metadata |-> built.metadata, organizations |-> organizations]

\* integration.organizations.all() has no ordering: either order of the two rows
IntegrationTables ==
    { {IntegrationRow(1, Built1, order), IntegrationRow(2, Built2, <<"o2">>)} :
        order \in {<<"o1", "o2">>, <<"o2", "o1">>} }

RepoName == "acme/app"

RepoUrl == "https://git.example/acme/app"

Repo1 == build_repository_config(1, "o1", Built1.metadata.instance, RepoName, RepoUrl)

Repo2 == build_repository_config(2, "o2", Built1.metadata.instance, RepoName, RepoUrl)

\* a row whose name and url are those of before an upstream change
StaleName(r) == [r EXCEPT !.name = "acme/old", !.url = "https://git.example/acme/old"]

\* a row whose config["repo"] is not the current full name
StaleConfig(r) == [r EXCEPT !.config = [@ EXCEPT !.repo = Some("acme/old")]]

\* a row of the same external id that another provider owns
OtherProvider(r) == [r EXCEPT !.provider = "integrations:gitlab"]

InitialRepositories ==
    { {Repo1}, {Repo1, Repo2}, {StaleName(Repo1), OtherProvider(Repo2)},
      {StaleConfig(Repo1), Repo2}, {StaleName(Repo1), StaleName(Repo2)} }

\* timestamps: an ISO-8601 string is its local time and, when it carries one, its
\* UTC offset (hours)
Ts1 == [iso |-> TRUE, local |-> 12, offset |-> Some(2)]

Ts2 == [iso |-> TRUE, local |-> 9, offset |-> Some(0)]

TsBad == [iso |-> FALSE, local |-> 0, offset |-> None]

\* an ISO-8601 timestamp without a UTC offset
TsNaive == [iso |-> TRUE, local |-> 12, offset |-> None]

LongEmail == "aaaaaaaaaaaaaaaaaaaaaaaaaaaaaaaaaaaaaaaaaaaaaaaaaaaaaaaaaaaaaaaaaaaaaaaaaa@x.io"

\* one entry of event["commits"]
Entry(id, message, name, email, ts) ==
    [id |-> id, message |-> message,
     author |-> Some([name |-> name, email |-> email]), timestamp |-> ts]

PlainA == Entry(Some("k1"), Some("fix bug"), Some("Ann"), Some("a@x"), Some(Ts1))

PlainB == Entry(Some("k2"), Some("add test"), Some("Bob"), Some("a@x"), Some(Ts2))

\* entries the handler treats specially: skipped message, the author-email cases,
\* and an entry without its id
SpecialEntries ==
    { Entry(Some("k2"), Some("merge #skipsentry"), Some("Ann"), Some("a@x"), Some(Ts2)),
      Entry(Some("k2"), Some("add test"), Some("Cyd"), Some(JNull), Some(Ts2)),
      Entry(Some("k2"), Some("add test"), Some("Cyd"), Some(""), Some(Ts2)),
      Entry(Some("k2"), Some("add test"), Some("Cyd"), Some(LongEmail), Some(Ts2)),
      Entry(Some("k2"), Some("add test"), Some("Cyd"), None, Some(Ts2)),
      Entry(None, Some("add test"), Some("Bob"), Some("b@x"), Some(Ts2)) }

\* the commit lists of the push events: none, one entry, two plain entries,
\* a plain entry before or after a special one
CommitLists ==
    {<<>>} \cup { <<e>> : e \in {PlainA, PlainB} \cup SpecialEntries }
           \cup { <<PlainA, PlainB>>, <<PlainB, PlainA>>, <<PlainA, PlainA>> }
           \cup { <<PlainA, e>> : e \in SpecialEntries }
           \cup { <<e, PlainA>> : e \in SpecialEntries }

\* event["pull_request"]
PullRequestObject(number, title, body, created_at, username, email, merged, sha) ==
    [number |-> number, title |-> title, body |-> body, created_at |-> created_at,
     user |-> Some([username |-> username, email |-> email]),
     merged |-> merged, merge_commit_sha |-> sha]

PrOpen ==
    PullRequestObject(Some(1), Some("Add x"), Some("body 1"), Some(Ts1),
                      Some("ann"), Some("a@x"), Some(FALSE), Some("m0"))

PrMerged ==
    PullRequestObject(Some(1), Some("Add x, v2"), Some("body 2"), Some(Ts2),
                      Some("bob"), Some("b@x"), Some(TRUE), Some("m1"))

PullRequestObjects ==
    { PrOpen, PrMerged,
      [PrOpen EXCEPT !.user = Some([username |-> Some("ann"), email |-> None])],
      [PrOpen EXCEPT !.user = Some([username |-> Some("ann"), email |-> Some("")])],
      [PrOpen EXCEPT !.user = Some([username |-> Some("ann"), email |-> Some(JNull)])],
      [PrOpen EXCEPT !.user = None],
      [PrOpen EXCEPT !.number = None],
      [PrOpen EXCEPT !.merged = None],
      [PrMerged EXCEPT !.merge_commit_sha = None],
      [PrOpen EXCEPT !.created_at = Some(TsBad)] }

\* the JSON document of a delivery
Event(secret, repository, commit_list, pull_request) ==
    [secret |-> secret, repository |-> repository,
     commits |-> commit_list, pull_request |-> pull_request]

Repository(full_name) ==
    Some([full_name |-> full_name, html_url |-> Some(RepoUrl)])

\* the composite secret "<external_id>#<webhook_secret>" the endpoint parses
CompositeSecret(model) == Format2(model.external_id, "#", model.metadata.webhook_secret)

\* request.body: bytes that are UTF-8 ("utf-8"), UTF-8 but for the three bytes of a
\* lone surrogate ("surrogate"), or neither ("other"); the text a JSON document
\* or not (limit: the limit of the parser the text exceeds, "none" for the bodies
\* built here)
Body(bytes, wellformed, doc) ==
    [bytes |-> bytes, wellformed |-> wellformed, limit |-> "none", doc |-> doc]

\* a request as the view sees it (a body of UTF-8 text)
Request(method, signature, event_type, wellformed, doc) ==
    [method |-> method, signature |-> signature, event_type |-> event_type,
     body |-> Body("utf-8", wellformed, doc)]

\* a delivery of Gitea: the hook's secret is in the body and keys the signature
Delivery(secret, event_type, repository, commit_list, pull_request) ==
    LET doc == Event(Some(secret), repository, commit_list, pull_request)
    IN  Request("POST", Some(HmacHex(secret, Body("utf-8", TRUE, doc))),
                event_type, TRUE, doc)

PushRequests ==
    { Delivery(CompositeSecret(Built1), Some("push"), Repository(Some(RepoName)),
               Some(l), None) : l \in CommitLists }
    \cup
    { Delivery(CompositeSecret(Built1), Some("push"), Repository(Some(RepoName)), None, None),
      Delivery(CompositeSecret(Built1), Some("push"), Repository(Some("acme/other")),
               Some(<<PlainA>>), None),
      Delivery(CompositeSecret(Built1), Some("push"), Repository(None), Some(<<PlainA>>), None),
      Delivery(CompositeSecret(Built1), Some("push"), None, Some(<<PlainA>>), None),
      Delivery(CompositeSecret(Built2), Some("push"), Repository(Some(RepoName)),
               Some(<<PlainA>>), None) }

PullRequestRequests ==
    { Delivery(CompositeSecret(Built1), Some("pull_request"), Repository(Some(RepoName)),
               None, Some(pr)) : pr \in PullRequestObjects }
    \cup
    { Delivery(CompositeSecret(Built1), Some("pull_request"), Repository(Some(RepoName)),
               None, None) }

\* the secret fields of the probes: the good one, what create_repo_webhook registers,
\* and the malformed, unknown and mismatching ones
ProbeSecrets ==
    { CompositeSecret(Built1),
      create_repo_webhook(Built1),
      CompositeSecret(Built1) \o <<"#", "x">>,
      Format2(<<>>, "#", Built1.metadata.webhook_secret),
      Format2(Built1.external_id, "#", <<>>),
      Format2(<<"git.example", ":", "9">>, "#", Built1.metadata.webhook_secret),
      Format2(Built1.external_id, "#", Built2.metadata.webhook_secret) }

ProbeDoc(secret) == Event(secret, Repository(Some(RepoName)), Some(<<PlainA>>), None)

ProbeBody(secret) == Body("utf-8", TRUE, ProbeDoc(secret))

\* requests that exercise the checks of the view before the handlers
ProbeRequests ==
    { Request("POST", Some(HmacHex(IF valid THEN s ELSE <<"forged">>, ProbeBody(Some(s)))),
              Some("push"), TRUE, ProbeDoc(Some(s))) :
        s \in ProbeSecrets, valid \in BOOLEAN }
    \cup
    { Request("GET", Some(HmacHex(CompositeSecret(Built1), ProbeBody(Some(CompositeSecret(Built1))))),
              Some("push"), TRUE, ProbeDoc(Some(CompositeSecret(Built1)))),
      Request("POST", None, Some("push"), TRUE, ProbeDoc(Some(CompositeSecret(Built1)))),
      Request("POST", Some(HmacHex(CompositeSecret(Built1), ProbeBody(Some(CompositeSecret(Built1))))),
              Some("push"), FALSE, ProbeDoc(Some(CompositeSecret(Built1)))),
      Request("POST", Some(HmacHex(<<"forged">>, ProbeBody(None))),
              Some("push"), TRUE, ProbeDoc(None)),
      Request("POST", Some(HmacHex(CompositeSecret(Built1), ProbeBody(Some(create_repo_webhook(Built1))))),
              Some("push"), TRUE, ProbeDoc(Some(CompositeSecret(Built1)))),
      Request("POST", Some(HmacHex(Built1.metadata.webhook_secret,
                                   ProbeBody(Some(CompositeSecret(Built1))))),
              Some("push"), TRUE, ProbeDoc(Some(CompositeSecret(Built1)))),
      Delivery(CompositeSecret(Built1), None, Repository(Some(RepoName)), Some(<<PlainA>>), None),
      Delivery(CompositeSecret(Built1), Some("issues"), Repository(Some(RepoName)),
               Some(<<PlainA>>), None) }

\* a signed push whose body is not UTF-8
UndecodableRequests ==
    { [method |-> "POST",
       signature |-> Some(HmacHex(CompositeSecret(Built1),
                                  Body("other", FALSE, ProbeDoc(Some(CompositeSecret(Built1)))))),
       event_type |-> Some("push"),
       body |-> Body("other", FALSE, ProbeDoc(Some(CompositeSecret(Built1))))] }

\* a signed push whose body holds the bytes of a lone surrogate (ED A0 80) in a
\* string the view and the handlers do not read
SurrogateBytesRequests ==
    { [method |-> "POST",
       signature |-> Some(HmacHex(CompositeSecret(Built1),
                                  Body("surrogate", TRUE, ProbeDoc(Some(CompositeSecret(Built1)))))),
       event_type |-> Some("push"),
       body |-> Body("surrogate", TRUE, ProbeDoc(Some(CompositeSecret(Built1))))] }

\* deliveries whose repository object has no html_url: a push, and pull_request
\* events with and without an author email
NoUrlRequests ==
    { Delivery(CompositeSecret(Built1), Some("push"),
               Some([full_name |-> Some(RepoName), html_url |-> None]), Some(<<PlainA>>), None) }
    \cup
    { Delivery(CompositeSecret(Built1), Some("pull_request"),
               Some([full_name |-> Some(RepoName), html_url |-> None]), None, Some(pr)) :
        pr \in { PrOpen,
                 [PrOpen EXCEPT !.user = Some([username |-> Some("ann"), email |-> None])],
                 [PrOpen EXCEPT !.user = Some([username |-> Some("ann"), email |-> Some("")])] } }

\* deliveries whose timestamp has no UTC offset
NaiveRequests ==
    { Delivery(CompositeSecret(Built1), Some("push"), Repository(Some(RepoName)),
               Some(<<[PlainA EXCEPT !.timestamp = Some(TsNaive)]>>), None),
      Delivery(CompositeSecret(Built1), Some("pull_request"), Repository(Some(RepoName)),
               None, Some([PrOpen EXCEPT !.created_at = Some(TsNaive)])) }

\* a body of JSON text that exceeds the limit of the parser: the keys of a signed
\* push beside an array nested deeper than the recursion limit, or beside an
\* integer of more digits than int() converts
Exceeding(limit) ==
    LET body == [ProbeBody(Some(CompositeSecret(Built1))) EXCEPT !.limit = limit]
    IN  [method |-> "POST", signature |-> Some(HmacHex(CompositeSecret(Built1), body)),
         event_type |-> Some("push"), body |-> body]

LimitRequests == { Exceeding("nesting"), Exceeding("digits") }

\* a secret whose webhook secret part is a lone surrogate
SurrogateSecret == Format2(Built1.external_id, "#", <<Surrogate>>)

\* secrets that hold a lone surrogate: beside a known external id, and as the only
\* character of a secret with one '#' and an empty half
SurrogateSecrets ==
    { SurrogateSecret, Format2(<<>>, "#", <<Surrogate>>), Format2(<<Surrogate>>, "#", <<>>) }

\* requests with such a secret, signed under it or not
SurrogateRequests ==
    { Request("POST", Some(HmacHex(IF valid THEN s ELSE <<"forged">>, ProbeBody(Some(s)))),
              Some("push"), TRUE, ProbeDoc(Some(s))) :
        s \in SurrogateSecrets, valid \in BOOLEAN }

\* a webhook secret part longer than the key block of HMAC-SHA256
LongSecret ==
    Format2(Built1.external_id, "#",
            <<"0123456789abcdef0123456789abcdef0123456789abcdef0123456789abcdef0123">>)

\* signatures made under a key that is another string than the secret of the body
\* and the same key block: the secret without its trailing NUL, the SHA-256 digest
\* of a secret longer than the block
SameBlockRequests ==
    { Request("POST", Some(HmacHex(CompositeSecret(Built1),
                                   ProbeBody(Some(CompositeSecret(Built1) \o <<NUL>>)))),
              Some("push"), TRUE, ProbeDoc(Some(CompositeSecret(Built1) \o <<NUL>>))),
      Request("POST", Some(HmacHex(<<Sha256Raw(LongSecret)>>, ProbeBody(Some(LongSecret)))),
              Some("push"), TRUE, ProbeDoc(Some(LongSecret))) }

\* entries that lack one of the fields the loop reads, or whose timestamp does not parse
MalformedEntries ==
    { [PlainB EXCEPT !.message = None],
      [PlainB EXCEPT !.author = None],
      [PlainB EXCEPT !.timestamp = None],
      [PlainB EXCEPT !.timestamp = Some(TsBad)] }

PlainC == Entry(Some("k3"), Some("docs"), Some("Ann"), Some("a@x"), Some(Ts1))

\* pushes with a malformed entry between two plain ones
IsolationRequests ==
    { Delivery(CompositeSecret(Built1), Some("push"), Repository(Some(RepoName)),
               Some(<<PlainA, e, PlainC>>), None) : e \in MalformedEntries }

\* pull_request objects that lack one of the remaining fields the handler reads
IncompletePullRequestRequests ==
    { Delivery(CompositeSecret(Built1), Some("pull_request"), Repository(Some(RepoName)),
               None, Some(pr)) :
        pr \in { [PrOpen EXCEPT !.title = None], [PrOpen EXCEPT !.body = None],
                 [PrOpen EXCEPT !.created_at = None] } }

Requests ==
    ProbeRequests \cup PushRequests \cup PullRequestRequests
        \cup IsolationRequests \cup IncompletePullRequestRequests
        \cup UndecodableRequests \cup SameBlockRequests
        \cup NoUrlRequests \cup LimitRequests \cup SurrogateRequests
        \cup SurrogateBytesRequests \cup NaiveRequests

\* ----------------------------------------------------------- specification

db == Store(repositories, commits, commit_authors, pull_requests)

Init ==
    /\ integrations \in IntegrationTables
    /\ repositories \in InitialRepositories
    /\ commits = {}
    /\ commit_authors = {}
    /\ pull_requests = {}
    /\ last = [request |-> None, status |-> 0, reason |-> "", checks |-> <<>>,
               invoked |-> <<>>, before |-> Store(repositories, {}, {}, {}),
               repeat |-> FALSE]
    /\ delivered = 0
    /\ workers = <<>>
    /\ client = NewClient
    /\ host \in Runtimes

\* One request served by GiteaWebhookEndpoint (dispatch, post and the handlers)
Deliver(request) ==
    /\ delivered < MaxDeliveries
    /\ \E r \in { dispatch(db, integrations, request, host) } :
           /\ repositories' = r.db.repositories
           /\ commits' = r.db.commits
           /\ commit_authors' = r.db.commit_authors
           /\ pull_requests' = r.db.pull_requests
           /\ last' = [request |-> Some(request), status |-> r.status, reason |-> r.reason,
                       checks |-> r.checks, invoked |-> r.invoked, before |-> db,
                       repeat |-> last.request = Some(request) /\ last.status = 204]
    /\ delivered' = delivered + 1
    /\ UNCHANGED <<integrations, workers, client, host>>

Next == \E request \in Requests : Deliver(request)

Spec == Init /\ [][Next]_vars

\* ------------------------------------------ specification: concurrent requests
\* Two requests served at the same time by two processes of the host.  A process
\* holds the locals of post and of the handler; a step is the code up to and
\* including its next statement on the store.  The store's statements are atomic:
\* Repository.objects.get, repo.update, get_or_create, Commit.objects.create under
\* the unique (repository_id, key), and PullRequest.create_or_save.

Workers == {"w1", "w2"}

\* pushes that share commit keys, in different orders
ConcLists == { <<PlainA, PlainB>>, <<PlainA, PlainC>>, <<PlainC, PlainA>>, <<PlainB, PlainA>> }

\* the pushes, and two pull_request events for the same number
ConcRequests ==
    { Delivery(CompositeSecret(Built1), Some("push"), Repository(Some(RepoName)),
               Some(l), None) : l \in ConcLists }
    \cup
    { Delivery(CompositeSecret(Built1), Some("pull_request"), Repository(Some(RepoName)),
               None, Some(pr)) : pr \in {PrOpen, PrMerged} }

\* a process: its request, where it is, the organizations left to serve, the
\* repository object and the entries of the running handler call, the dict
\* "authors", the author of the row about to be written, the status once answered,
\* and the rows that made one of its creates fail with IntegrityError
Worker(request) ==
    [request |-> request, phase |-> "post", orgs |-> <<>>, repo |-> None, entries |-> <<>>,
     cache |-> {}, author |-> None, status |-> 0, lost |-> {}]

\* the answer of dispatch/post before any handler runs (0: the handlers run)
Admit(table, request, runtime) ==
    IF request.method # "POST" THEN 405
    ELSE IF request.signature = None THEN 400
    ELSE IF decode(request.body, runtime) = None THEN 500
    ELSE IF json_loads(decode(request.body, runtime)[1], runtime).raise = "JSONDecodeError" THEN 400
    ELSE IF json_loads(decode(request.body, runtime)[1], runtime).raise # "" THEN 500
    ELSE IF Authenticate(table, request, json_loads(decode(request.body, runtime)[1], runtime).doc[1],
                         runtime).reason = "unhandled exception"
    THEN 500
    ELSE IF Authenticate(table, request, json_loads(decode(request.body, runtime)[1], runtime).doc[1],
                         runtime).reason # ""
    THEN 400
    ELSE IF EventLookup(request) = "unhandled exception" THEN 500
    ELSE IF EventLookup(request) # "" THEN 400
    ELSE 0

Answer(w, status) ==
    workers' = [workers EXCEPT ![w] = [@ EXCEPT !.phase = "done", !.status = status]]

\* where the handler of the request goes on once update_repo_data has returned:
\* the loop of the push handler, or lines 87-109 of the pull_request handler
HandlerPhase(request) ==
    IF request.event_type[1] = "push" THEN "entry" ELSE "pull_author"

ConcInit ==
    /\ integrations \in IntegrationTables
    /\ repositories \in {{Repo1}, {Repo1, Repo2}, {StaleName(Repo1)},
                         {StaleName(Repo1), StaleName(Repo2)}}
    /\ commits = {}
    /\ commit_authors = {}
    /\ pull_requests = {}
    /\ last = [request |-> None, status |-> 0, reason |-> "", checks |-> <<>>,
               invoked |-> <<>>, before |-> Store(repositories, {}, {}, {}),
               repeat |-> FALSE]
    /\ delivered = 0
    /\ workers \in [Workers -> { Worker(r) : r \in ConcRequests }]
    /\ client = NewClient
    /\ host \in Runtimes

\* dispatch and post up to the loop over the organizations (lines 181-248)
ConcPost(w) ==
    /\ workers[w].phase = "post"
    /\ LET request == workers[w].request
           status  == Admit(integrations, request, host)
       IN  IF status # 0 THEN Answer(w, status)
           ELSE workers' = [workers EXCEPT ![w] =
                    [@ EXCEPT !.phase = "repo",
                              !.orgs = IntegrationGet(integrations, provider,
                                          SecretParts(request.body.doc)[1][1])[1].organizations]]
    /\ UNCHANGED <<integrations, repositories, commits, commit_authors, pull_requests,
                   last, delivered, client, host>>

\* the next organization of the loop of lines 249-250 and get_repo of its handler
\* call (lines 37-50: Repository.objects.get), or the answer 204 after the last one;
\* the reads (lines 59-62) and the test (lines 64-68) of update_repo_data are made
\* on the object that was read
ConcResolve(w) ==
    /\ workers[w].phase = "repo"
    /\ LET me    == workers[w]
           event == me.request.body.doc
       IN  IF me.orgs = <<>>
           THEN Answer(w, 204)
           ELSE LET got == get_repo(db, InstallationOfSecret(integrations, event),
                                    Head(me.orgs), event)
                IN  IF got.raise THEN Answer(w, 404)
                    ELSE IF got.repo = None
                    THEN workers' = [workers EXCEPT ![w] = [@ EXCEPT !.orgs = Tail(@)]]
                    ELSE IF RepoReadsRaise(event) THEN Answer(w, 500)
                    ELSE workers' = [workers EXCEPT ![w] =
                             [@ EXCEPT !.phase = IF RepoNeedsUpdate(got.repo[1], event)
                                                 THEN "update"
                                                 ELSE HandlerPhase(me.request),
                                       !.repo = got.repo,
                                       !.entries = IF event.commits = None THEN <<>>
                                                   ELSE event.commits[1],
                                       !.cache = {}]]
    /\ UNCHANGED <<integrations, repositories, commits, commit_authors, pull_requests,
                   last, delivered, client, host>>

\* repo.update of update_repo_data (lines 69-73), with the values of the object
\* that get_repo read
ConcUpdate(w) ==
    /\ workers[w].phase = "update"
    /\ LET me == workers[w]
       IN  /\ repositories' = update_repo_data(db, me.repo[1], me.request.body.doc).db.repositories
           /\ workers' = [workers EXCEPT ![w] = [@ EXCEPT !.phase = HandlerPhase(me.request)]]
    /\ UNCHANGED <<integrations, commits, commit_authors, pull_requests, last, delivered, client, host>>

\* lines 142-159 for the next entry: skip test, author email, get_or_create
ConcAuthor(w) ==
    /\ workers[w].phase = "entry"
    /\ LET me == workers[w]
           organization == Head(me.orgs)
       IN
       IF me.entries = <<>>
       THEN /\ workers' = [workers EXCEPT ![w] = [@ EXCEPT !.phase = "repo", !.orgs = Tail(@)]]
            /\ UNCHANGED commit_authors
       ELSE
       LET commit == Head(me.entries)
       IN
       IF commit.message = None THEN Answer(w, 500) /\ UNCHANGED commit_authors
       ELSE IF should_ignore_commit(commit.message[1])
       THEN /\ workers' = [workers EXCEPT ![w] = [@ EXCEPT !.entries = Tail(@)]]
            /\ UNCHANGED commit_authors
       ELSE IF commit.author = None \/ commit.author[1].email = None
       THEN Answer(w, 500) /\ UNCHANGED commit_authors
       ELSE
       LET author_email == commit.author[1].email[1]
           discarded    == AuthorDiscarded(author_email)
           cached       == \E e \in me.cache : e.email = author_email
           lookup       == ~discarded /\ ~cached
       IN
       IF lookup /\ commit.author[1].name = None
       THEN Answer(w, 500) /\ UNCHANGED commit_authors
       ELSE
       LET db1 == IF lookup
                  THEN get_or_create_author(db, organization, author_email,
                                            commit.author[1].name[1])
                  ELSE db
           author == IF discarded THEN None
                     ELSE IF cached
                     THEN Some((CHOOSE e \in me.cache : e.email = author_email).id)
                     ELSE Some(AuthorId(db1, organization, author_email))
       IN  /\ commit_authors' = db1.commit_authors
           /\ workers' = [workers EXCEPT ![w] =
                  [@ EXCEPT !.phase = "create", !.author = Some(author),
                            !.cache = IF lookup
                                      THEN @ \cup {[email |-> author_email, id |-> author[1]]}
                                      ELSE @]]
    /\ UNCHANGED <<integrations, repositories, commits, pull_requests, last, delivered, client, host>>

\* lines 160-173 for that entry: Commit.objects.create, IntegrityError swallowed
ConcCreate(w) ==
    /\ workers[w].phase = "create"
    /\ LET me     == workers[w]
           commit == Head(me.entries)
       IN
       IF commit.id = None \/ commit.timestamp = None
       THEN Answer(w, 500) /\ UNCHANGED commits
       ELSE IF ParseUtc(commit.timestamp[1], host) = None
       THEN Answer(w, 500) /\ UNCHANGED commits
       ELSE /\ commits' = CommitCreate(db, me.repo[1].id, Head(me.orgs), commit.id[1],
                                       commit.message[1], me.author[1],
                                       ParseUtc(commit.timestamp[1], host)[1]).commits
            /\ workers' = [workers EXCEPT ![w] =
                   [@ EXCEPT !.phase = "entry", !.entries = Tail(@), !.author = None,
                             !.lost = @ \cup { c \in commits :
                                                 /\ commits' = commits
                                                 /\ c.repository_id = me.repo[1].id
                                                 /\ c.key = commit.id[1] }]]
    /\ UNCHANGED <<integrations, repositories, commit_authors, pull_requests, last, delivered, client, host>>

\* lines 87-109 of the pull_request handler: the reads of the event, the test of
\* the author email, get_or_create
ConcPullAuthor(w) ==
    /\ workers[w].phase = "pull_author"
    /\ LET me           == workers[w]
           event        == me.request.body.doc
           organization == Head(me.orgs)
           reads        == PullRequestReads(event)
           author_email == IF reads >= 7 THEN event.pull_request[1].user[1].email[1]
                           ELSE JNull
       IN
       IF Falsy(author_email) THEN Answer(w, 404) /\ UNCHANGED commit_authors
       ELSE
       LET db1 == get_or_create_author(db, organization, author_email,
                                       event.pull_request[1].user[1].username[1])
       IN  /\ commit_authors' = db1.commit_authors
           /\ workers' = [workers EXCEPT ![w] =
                  [@ EXCEPT !.phase = "pull_save",
                            !.author = Some(Some(AuthorId(db1, organization, author_email)))]]
    /\ UNCHANGED <<integrations, repositories, commits, pull_requests, last, delivered, client, host>>

\* lines 111-125 of the pull_request handler: PullRequest.create_or_save, then the
\* next organization
ConcPullSave(w) ==
    /\ workers[w].phase = "pull_save"
    /\ LET me    == workers[w]
           event == me.request.body.doc
           pr    == event.pull_request[1]
       IN
       IF PullRequestReads(event) < 8 THEN Answer(w, 500) /\ UNCHANGED pull_requests
       ELSE IF ParseUtc(pr.created_at[1], host) = None
       THEN Answer(w, 500) /\ UNCHANGED pull_requests
       ELSE /\ pull_requests' =
                   create_or_save(db, Head(me.orgs), me.repo[1].id, pr.number[1],
                       [title |-> pr.title[1],
                        author |-> me.author[1][1],
                        message |-> pr.body[1],
                        merge_commit_sha |-> MergeCommitSha(pr),
                        date_added |-> ParseUtc(pr.created_at[1], host)[1]]).pull_requests
            /\ workers' = [workers EXCEPT ![w] =
                   [@ EXCEPT !.phase = "repo", !.orgs = Tail(@), !.author = None]]
    /\ UNCHANGED <<integrations, repositories, commits, commit_authors, last, delivered, client, host>>

ConcNext ==
    \E w \in Workers :
        \/ ConcPost(w) \/ ConcResolve(w) \/ ConcUpdate(w)
        \/ ConcAuthor(w) \/ ConcCreate(w)
        \/ ConcPullAuthor(w) \/ ConcPullSave(w)

ConcSpec == ConcInit /\ [][ConcNext]_vars

\* ------------------------------------------------ specification: API client
\* One GiteaApiClient used for a sequence of calls of request (the store of the
\* webhook pipeline is not touched).

ApiPaths == {"/user/repos", "/repos/acme/app/hooks"}

ClientInit ==
    /\ integrations = {IntegrationRow(1, Built1, <<"o1", "o2">>)}
    /\ repositories = {Repo1}
    /\ commits = {}
    /\ commit_authors = {}
    /\ pull_requests = {}
    /\ last = [request |-> None, status |-> 0, reason |-> "", checks |-> <<>>,
               invoked |-> <<>>, before |-> Store(repositories, {}, {}, {}),
               repeat |-> FALSE]
    /\ delivered = 0
    /\ workers = <<>>
    /\ client = NewClient
    /\ host \in Runtimes

\* one call of GiteaApiClient.request
ClientCall(path, first, refresh, retry) ==
    /\ client.calls < MaxCalls
    /\ client' = client_request(client, path, first, refresh, retry)
    /\ UNCHANGED <<integrations, repositories, commits, commit_authors, pull_requests,
                   last, delivered, workers, host>>

ClientNext ==
    \E path \in ApiPaths, first \in RequestOutcomes, refresh \in RefreshOutcomes,
       retry \in RequestOutcomes : ClientCall(path, first, refresh, retry)

ClientSpec == ClientInit /\ [][ClientNext]_vars

\* ------------------------------------------------- vocabulary of the claims
\* The classes of requests are stated on the request itself, not on what the
\* view answered.

Served == last.request # None

Req == last.request[1]

Doc == Req.body.doc

\* the number of '#' characters of a token string
HashCount(s) == Cardinality({ i \in 1..Len(s) : s[i] = "#" })

FirstHash(s) == CHOOSE i \in 1..Len(s) : s[i] = "#" /\ \A j \in 1..(i - 1) : s[j] # "#"

IdHalf(s) == SubSeq(s, 1, FirstHash(s) - 1)

SecretHalf(s) == SubSeq(s, FirstHash(s) + 1, Len(s))

\* the request reached post with a signature header and a body that the host
\* decodes and parses as a JSON document
Readable(req) ==
    /\ req.method = "POST" /\ req.signature # None
    /\ decode(req.body, host) # None
    /\ json_loads(decode(req.body, host)[1], host).raise = ""

MissingSignature(req) == req.method = "POST" /\ req.signature = None

MissingSecret(req) == Readable(req) /\ req.body.doc.secret = None

\* no '#', several '#', or an empty half
MalformedSecret(req) ==
    /\ Readable(req) /\ req.body.doc.secret # None
    /\ \/ HashCount(req.body.doc.secret[1]) # 1
       \/ IdHalf(req.body.doc.secret[1]) = <<>>
       \/ SecretHalf(req.body.doc.secret[1]) = <<>>

\* the signature is not the digest of the body under the body's secret
BadSignature(req) ==
    /\ Readable(req) /\ req.body.doc.secret # None
    /\ req.signature[1] # HmacHex(req.body.doc.secret[1], req.body)

UnknownInstallation(req) ==
    /\ Readable(req) /\ req.body.doc.secret # None
    /\ HashCount(req.body.doc.secret[1]) >= 1
    /\ \A i \in integrations : i.external_id # IdHalf(req.body.doc.secret[1])

SecretMismatch(req) ==
    /\ Readable(req) /\ req.body.doc.secret # None
    /\ HashCount(req.body.doc.secret[1]) >= 1
    /\ \E i \in integrations :
          /\ i.external_id = IdHalf(req.body.doc.secret[1])
          /\ i.metadata.webhook_secret # SecretHalf(req.body.doc.secret[1])

AuthenticationFailure(req) ==
    \/ MissingSignature(req) \/ BadSignature(req) \/ MissingSecret(req)
    \/ MalformedSecret(req) \/ UnknownInstallation(req) \/ SecretMismatch(req)

\* the request passes every authentication check
Authentic(req) == Readable(req) /\ ~AuthenticationFailure(req)

\* the installation an authentic request names
InstallationOf(req) ==
    CHOOSE i \in integrations : i.external_id = IdHalf(req.body.doc.secret[1])

\* an authentic request with a known event type: the handlers run
Accepted(req) ==
    Authentic(req) /\ req.event_type # None /\ req.event_type[1] \in {"push", "pull_request"}

StoreUnchanged == db = last.before

\* ------------------------------------------------------------------ claims

\* C3: every authentication failure of a POST (missing signature header, signature
\* that does not match the body, missing or malformed composite secret, unknown
\* installation, webhook secret different from the stored one) is answered 400,
\* leaves the Repository, Commit, CommitAuthor and PullRequest tables as they were,
\* and calls no handler.
C3_AuthFailureRejected ==
    (Served /\ AuthenticationFailure(Req))
        => (last.status = 400 /\ StoreUnchanged /\ last.invoked = <<>>)

\* C3 witness: a forged signature on an otherwise good delivery, rejected while the
\* store already holds a commit of an earlier delivery.
C3_Witness ==
    /\ Served /\ BadSignature(Req)
    /\ ~MalformedSecret(Req) /\ ~UnknownInstallation(Req) /\ ~SecretMismatch(Req)
    /\ last.status = 400 /\ commits # {} /\ StoreUnchanged

\* C4 as stated: a request whose signature is invalid and whose secret is malformed
\* is rejected by the signature check, and the secret parsing is not evaluated.
C4_SignatureBeforeSecret ==
    (Served /\ BadSignature(Req) /\ MalformedSecret(Req))
        => /\ last.reason = "gitea.webhook.invalid-signature"
           /\ \A i \in 1..Len(last.checks) : last.checks[i] # "secret"

\* the position of a check in the checks a request went through (0 = not evaluated)
CheckIndex(name) ==
    IF \E i \in 1..Len(last.checks) : last.checks[i] = name
    THEN CHOOSE i \in 1..Len(last.checks) : last.checks[i] = name
    ELSE 0

\* the secret can be encoded as UTF-8 on every interpreter
Encodable(secret) == \A runtime \in Runtimes : encode(secret, runtime) # None

\* C4 amended: the checks run in the order secret parsing, signature check,
\* installation lookup and stored-secret comparison, event-type lookup.  A request
\* whose secret has no single '#' (or is missing) is rejected by the secret parsing
\* and the signature check is not evaluated, also when its signature is invalid; a
\* request with an invalid signature and a parseable secret ends at the signature
\* check, before the installation and the event type are looked at and with no
\* handler called: it is rejected there with 400 when the secret can be encoded,
\* and ends there with 400 or an unhandled error when it cannot.
C4_SecretBeforeSignature ==
    Served =>
      /\ (CheckIndex("signature") > 0 => 0 < CheckIndex("secret")
                                         /\ CheckIndex("secret") < CheckIndex("signature"))
      /\ (CheckIndex("integration") > 0 => 0 < CheckIndex("signature")
                                           /\ CheckIndex("signature") < CheckIndex("integration"))
      /\ (CheckIndex("event") > 0 => 0 < CheckIndex("token")
                                     /\ CheckIndex("token") < CheckIndex("event"))
      /\ ((MissingSecret(Req) \/ (Readable(Req) /\ Doc.secret # None
                                   /\ HashCount(Doc.secret[1]) # 1))
            => /\ last.status = 400
               /\ last.reason = "gitea.webhook.invalid-secret"
               /\ CheckIndex("signature") = 0)
      /\ ((BadSignature(Req) /\ HashCount(Doc.secret[1]) = 1)
            => /\ CheckIndex("signature") > 0
               /\ CheckIndex("integration") = 0 /\ CheckIndex("event") = 0
               /\ last.invoked = <<>> /\ StoreUnchanged
               /\ last.status \in {400, 500}
               /\ last.status = 400 => last.reason = "gitea.webhook.invalid-signature"
               /\ Encodable(Doc.secret[1]) => last.status = 400)

\* C4 witness: an invalid signature together with a secret that has no '#',
\* rejected by the secret parsing.
C4_Witness ==
    /\ Served /\ BadSignature(Req) /\ MalformedSecret(Req)
    /\ HashCount(Doc.secret[1]) = 0
    /\ last.reason = "gitea.webhook.invalid-secret" /\ last.status = 400

\* C5: a delivery that carries the secret create_repo_webhook registers for an
\* installation, signed with it, passes the secret parsing, the installation lookup
\* and the stored-secret comparison (it is not answered 400).
C5_RegisteredSecretAccepted ==
    (/\ Served /\ Readable(Req) /\ Doc.secret # None
     /\ \E i \in integrations : Doc.secret[1] = create_repo_webhook(i)
     /\ Req.signature[1] = HmacHex(Doc.secret[1], Req.body)
     /\ Req.event_type # None /\ Req.event_type[1] \in {"push", "pull_request"})
        => (last.status # 400 /\ CheckIndex("token") > 0)

\* C6: an authentic request whose event-type header is missing or is not push or
\* pull_request is answered 400 and no handler is called.
C6_UnknownEventRejected ==
    (/\ Served /\ Authentic(Req)
     /\ (Req.event_type = None \/ Req.event_type[1] \notin {"push", "pull_request"}))
        => (last.status = 400 /\ last.invoked = <<>>)

\* -------------------------------------------- vocabulary of the handler claims

IsPush(req) == Accepted(req) /\ req.event_type[1] = "push"

IsPullRequest(req) == Accepted(req) /\ req.event_type[1] = "pull_request"

HasRepoName(req) ==
    req.body.doc.repository # None /\ req.body.doc.repository[1].full_name # None

\* the repository object of the event carries its html_url
HasRepoUrl(req) == HasRepoName(req) /\ req.body.doc.repository[1].html_url # None

\* the organizations linked to the installation of the last request
LinkedOrgs ==
    { InstallationOf(Req).organizations[i] :
        i \in 1..Len(InstallationOf(Req).organizations) }

\* the Repository rows of an organization that the event of the last request names:
\* provider integrations:gitea, external id "<instance>:<full_name>"
Tracked(store, organization_id) ==
    { r \in store.repositories :
        /\ r.organization_id = organization_id
        /\ r.provider = "integrations:gitea"
        /\ r.external_id = InstallationOf(Req).metadata.instance
                             \o <<":", Doc.repository[1].full_name[1]>> }

TrackedRepos == UNION { Tracked(last.before, o) : o \in LinkedOrgs }

\* the rows an organization owns
OrgRows(store, organization_id) ==
    [repositories   |-> { r \in store.repositories : r.organization_id = organization_id },
     commits        |-> { c \in store.commits : c.organization_id = organization_id },
     commit_authors |-> { a \in store.commit_authors : a.organization_id = organization_id },
     pull_requests  |-> { p \in store.pull_requests : p.organization_id = organization_id }]

Entries == IF Doc.commits = None THEN <<>> ELSE Doc.commits[1]

Skipped(entry) == entry.message # None /\ should_ignore_commit(entry.message[1])

\* an entry with its message, id, author name and a timestamp that parses and
\* carries its UTC offset
SoundButEmail(entry) ==
    /\ entry.message # None /\ entry.id # None /\ entry.author # None
    /\ entry.author[1].name # None
    /\ entry.timestamp # None /\ entry.timestamp[1].iso
    /\ entry.timestamp[1].offset # None

\* an entry the handler can ingest or skip
WellFormed(entry) ==
    Skipped(entry) \/ (SoundButEmail(entry) /\ entry.author[1].email # None)

CommitsOf(store, repository_id, key) ==
    { c \in store.commits : c.repository_id = repository_id /\ c.key = key }

\* C1 as stated: after the second delivery of a push payload (the first answered
\* 204) the answer is 204 and every commit key of the payload has exactly one Commit
\* in every matching repository.
C1_OnePerPayloadKey ==
    (Served /\ last.repeat /\ IsPush(Req))
        => /\ last.status = 204
           /\ \A r \in TrackedRepos : \A i \in 1..Len(Entries) :
                 Entries[i].id # None
                    => Cardinality(CommitsOf(db, r.id, Entries[i].id[1])) = 1

\* C1 amended: after the second delivery of a push payload (the first answered 204)
\* the answer is 204, and in every matching repository every commit key of the
\* payload has at most one Commit, exactly one when its entry's message is not one
\* that should_ignore_commit skips.
C1_OnePerIngestedKey ==
    (Served /\ last.repeat /\ IsPush(Req))
        => /\ last.status = 204
           /\ \A r \in TrackedRepos : \A i \in 1..Len(Entries) :
                 Entries[i].id # None
                    => /\ Cardinality(CommitsOf(db, r.id, Entries[i].id[1])) <= 1
                       /\ ~Skipped(Entries[i])
                            => Cardinality(CommitsOf(db, r.id, Entries[i].id[1])) = 1

\* C1 witness: a push with an ingested entry delivered a second time to a tracked
\* repository that already holds its Commit.
C1_Witness ==
    /\ Served /\ last.repeat /\ IsPush(Req) /\ last.status = 204
    /\ TrackedRepos # {}
    /\ \E i \in 1..Len(Entries) : ~Skipped(Entries[i])
    /\ last.before.commits # {}

\* the PullRequest rows of a repository and number
PullsOf(store, repository_id, key) ==
    { p \in store.pull_requests : p.repository_id = repository_id /\ p.key = key }

Pr == Doc.pull_request[1]

\* the UTC time a timestamp names; without an offset it is local time of the host
UtcOf(ts) == ts.local - (IF ts.offset # None THEN ts.offset[1] ELSE host.utcoffset)

\* C2: there is never more than one PullRequest per (repository, number), and after
\* a pull_request delivery answered 204 every tracked repository has exactly one
\* row for the number, with the title, author, message, merge commit hash (null
\* unless merged) and UTC creation time of that delivery.
C2_PullRequestLatestWins ==
    /\ \A p, q \in pull_requests :
          (p.repository_id = q.repository_id /\ p.key = q.key) => p = q
    /\ (Served /\ IsPullRequest(Req) /\ last.status = 204)
          => \A r \in TrackedRepos :
                /\ Cardinality(PullsOf(db, r.id, Pr.number[1])) = 1
                /\ \A p \in PullsOf(db, r.id, Pr.number[1]) :
                      /\ p.title = Pr.title[1]
                      /\ p.message = Pr.body[1]
                      /\ p.merge_commit_sha = (IF Pr.merged[1] THEN Pr.merge_commit_sha[1]
                                               ELSE JNull)
                      /\ p.date_added = UtcOf(Pr.created_at[1])
                      /\ \E a \in commit_authors :
                            /\ a.id = p.author
                            /\ a.organization_id = r.organization_id
                            /\ a.email = Pr.user[1].email[1]

\* C2 witness: a pull_request delivery answered 204 for a number whose row already
\* existed with another title.
C2_Witness ==
    /\ Served /\ IsPullRequest(Req) /\ last.status = 204
    /\ \E r \in TrackedRepos : \E p \in PullsOf(last.before, r.id, Pr.number[1]) :
          p.title # Pr.title[1] /\ p.merge_commit_sha # JNull

\* what an organization's rows say, without the row ids (the email stands for the author)
AuthorEmailOf(store, author_id) ==
    (CHOOSE a \in store.commit_authors : a.id = author_id).email

OrgView(store, organization_id) ==
    [repositories   |-> { r \in store.repositories : r.organization_id = organization_id },
     commit_authors |-> { [email |-> a.email, name |-> a.name] :
                            a \in { x \in store.commit_authors :
                                      x.organization_id = organization_id } },
     commits        |-> { [repository_id |-> c.repository_id, key |-> c.key,
                           message |-> c.message, date_added |-> c.date_added,
                           author |-> IF c.author = None THEN None
                                      ELSE Some(AuthorEmailOf(store, c.author[1]))] :
                            c \in { x \in store.commits :
                                      x.organization_id = organization_id } },
     pull_requests  |-> { [repository_id |-> p.repository_id, key |-> p.key,
                           title |-> p.title, message |-> p.message,
                           merge_commit_sha |-> p.merge_commit_sha,
                           date_added |-> p.date_added,
                           author |-> AuthorEmailOf(store, p.author)] :
                            p \in { x \in store.pull_requests :
                                      x.organization_id = organization_id } }]

\* C7: for an accepted delivery the handler is called exactly once for every
\* organization of the installation, and every organization ends with the rows its
\* own handler call writes, whatever the handler did for the other organizations.
C7_FanOutIsolation ==
    (Served /\ Accepted(Req))
        => /\ Len(last.invoked) = Cardinality(LinkedOrgs)
           /\ { last.invoked[i] : i \in 1..Len(last.invoked) } = LinkedOrgs
           /\ \A o \in LinkedOrgs :
                 OrgView(db, o) =
                    OrgView(HandlerCall(Req.event_type[1], last.before,
                                        InstallationOf(Req), o, Doc, host).db, o)

\* C8: an organization of the installation without a local Repository of provider
\* integrations:gitea and external id "<instance>:<full_name>" gets no write and
\* its handler call raises nothing (when no organization tracks the repository the
\* request is answered 204 with the store untouched); with two linked organizations
\* of which one tracks the repository, a push of well-formed entries (whose
\* repository object is complete) is answered 204 and its Commits are written for
\* the tracking organization only.
C8_MissingRepositoryNoOp ==
    (Served /\ Accepted(Req) /\ HasRepoName(Req))
        => /\ \A o \in LinkedOrgs :
                 Tracked(last.before, o) = {} => OrgRows(db, o) = OrgRows(last.before, o)
           /\ \A i \in 1..Len(last.invoked) :
                 Tracked(last.before, last.invoked[i]) = {}
                    => (i < Len(last.invoked) \/ last.status = 204)
           /\ TrackedRepos = {}
                 => (last.status = 204 /\ StoreUnchanged
                     /\ Len(last.invoked) = Cardinality(LinkedOrgs))
           /\ (/\ IsPush(Req) /\ HasRepoUrl(Req) /\ Cardinality(LinkedOrgs) = 2
               /\ Cardinality(TrackedRepos) = 1
               /\ \A i \in 1..Len(Entries) : WellFormed(Entries[i]))
                 => /\ last.status = 204
                    /\ \A r \in TrackedRepos : \A i \in 1..Len(Entries) :
                          ~Skipped(Entries[i])
                             => Cardinality(CommitsOf(db, r.id, Entries[i].id[1])) = 1
                    /\ \A c \in commits : \E r \in TrackedRepos :
                          c.repository_id = r.id /\ c.organization_id = r.organization_id

\* C8 witness: a push to an installation with two organizations of which one
\* tracks the repository; the Commit is written for it and the answer is 204.
C8_Witness ==
    /\ Served /\ IsPush(Req) /\ HasRepoName(Req)
    /\ Cardinality(LinkedOrgs) = 2 /\ Cardinality(TrackedRepos) = 1
    /\ \E o \in LinkedOrgs : Tracked(last.before, o) = {}
    /\ last.status = 204 /\ Len(last.invoked) = 2
    /\ commits # last.before.commits

\* an email for which line 150 sets the author to None: null or longer than 75
AuthorDiscardedEmail(email) == email = JNull \/ Len(email) > 75

\* an author email the push handler is to treat as no author: key absent, null,
\* empty, or longer than 75 characters
AbsentEmail(entry) ==
    \/ entry.author[1].email = None
    \/ entry.author[1].email[1] = JNull
    \/ entry.author[1].email[1] = ""
    \/ Len(entry.author[1].email[1]) > 75

\* C9: in a push whose entries are sound apart from their author emails, an entry
\* whose email is absent, empty or longer than 75 characters gets a Commit with a
\* null author and no CommitAuthor record; the request is answered 204.
C9_LenientAuthor ==
    (/\ Served /\ IsPush(Req) /\ HasRepoName(Req)
     /\ \A i \in 1..Len(Entries) : SoundButEmail(Entries[i]))
        => /\ last.status = 204
           /\ \A r \in TrackedRepos : \A i \in 1..Len(Entries) :
                 (AbsentEmail(Entries[i]) /\ ~Skipped(Entries[i]))
                    => /\ \A c \in CommitsOf(db, r.id, Entries[i].id[1]) \ last.before.commits :
                             c.message = Entries[i].message[1] => c.author = None
                       /\ Entries[i].author[1].email # None
                             => \A a \in commit_authors \ last.before.commit_authors :
                                   a.email # Entries[i].author[1].email[1]

\* the pull_request object has no usable author email: user or email absent, null or empty
NoPrEmail ==
    /\ Doc.pull_request # None
    /\ \/ Pr.user = None
       \/ Pr.user[1].email = None
       \/ Pr.user[1].email[1] \in {"", JNull}

\* C10: a pull_request event for a tracked repository (the event's repository
\* object complete, with its html_url) whose pull_request.user.email is missing
\* or empty is answered 404 and writes neither a PullRequest nor a CommitAuthor
\* record.
C10_StrictPullRequestAuthor ==
    (/\ Served /\ IsPullRequest(Req) /\ HasRepoUrl(Req)
     /\ NoPrEmail /\ TrackedRepos # {})
        => /\ last.status = 404
           /\ pull_requests = last.before.pull_requests
           /\ commit_authors = last.before.commit_authors

\* C10 witness: a pull_request event with an empty user.email for a tracked
\* repository, answered 404.
C10_Witness ==
    /\ Served /\ IsPullRequest(Req) /\ HasRepoUrl(Req) /\ TrackedRepos # {}
    /\ Doc.pull_request # None /\ Pr.user # None /\ Pr.user[1].email = Some("")
    /\ last.status = 404

\* ------------------------------------------------ error handling of the handlers

\* the field of the pull_request event the handler needs and the event lacks
MissingPrField ==
    \/ Doc.pull_request = None
    \/ Pr.number = None \/ Pr.title = None \/ Pr.body = None \/ Pr.created_at = None
    \/ Pr.user = None \/ Pr.user[1].username = None \/ Pr.user[1].email = None
    \/ Pr.merged = None
    \/ (Pr.merged[1] /\ Pr.merge_commit_sha = None)

\* C11: a pull_request event for a tracked repository that lacks one of the required
\* fields (pull_request, number, title, body, created_at, user.username, user.email,
\* merged, merge_commit_sha when merged) is answered 404 and writes no PullRequest.
C11_MissingFieldNotActionable ==
    (/\ Served /\ IsPullRequest(Req) /\ HasRepoName(Req)
     /\ TrackedRepos # {} /\ MissingPrField)
        => (last.status = 404 /\ pull_requests = last.before.pull_requests)

\* an entry that lacks its message, author, id or timestamp, or whose timestamp
\* does not parse
Malformed(entry) ==
    \/ entry.message = None \/ entry.author = None \/ entry.id = None
    \/ entry.timestamp = None \/ ~entry.timestamp[1].iso

\* an entry with every field the loop reads, and not skipped
Ingestible(entry) ==
    /\ SoundButEmail(entry) /\ entry.author[1].email # None
    /\ ~should_ignore_commit(entry.message[1])

\* C12: in a push to a tracked repository whose commit list holds a malformed entry,
\* the request is not failed as a whole (it is answered 204) and every well-formed,
\* non-ignored entry of the list, before or after the malformed one, has its Commit.
C12_PerCommitIsolation ==
    (/\ Served /\ IsPush(Req) /\ HasRepoName(Req)
     /\ \E i \in 1..Len(Entries) : Malformed(Entries[i]))
        => /\ last.status = 204
           /\ \A r \in TrackedRepos : \A i \in 1..Len(Entries) :
                 Ingestible(Entries[i])
                    => CommitsOf(db, r.id, Entries[i].id[1]) # {}

\* C13: every request served ends with one of the statuses 204, 400, 404, 405.
C13_ClosedOutcomes ==
    Served => last.status \in {204, 400, 404, 405}

\* ------------------------------------------------------- repository metadata

\* the organizations whose handler was called for the last request
InvokedOrgs == { last.invoked[i] : i \in 1..Len(last.invoked) }

\* the stored name or url of a row is not the one the event reports
Drifted(r, event) ==
    r.name # event.repository[1].full_name[1] \/ r.url # event.repository[1].html_url[1]

\* C14: when the handler of an organization resolves an accepted event (by provider
\* and external id "<instance>:<full_name>") to a Repository whose stored name or
\* url is not the event's, the same row (same id, organization, provider and external
\* id) afterwards carries the event's full_name and html_url, no Repository row is
\* added or removed, and in a push answered 204 every ingested entry has its Commit
\* under that repository id.
C14_RenameTolerance ==
    (Served /\ Accepted(Req) /\ HasRepoUrl(Req))
        => /\ Cardinality(repositories) = Cardinality(last.before.repositories)
           /\ \A o \in InvokedOrgs : \A r \in Tracked(last.before, o) :
                 Drifted(r, Doc)
                    => /\ \E u \in repositories :
                             /\ u.id = r.id /\ u.organization_id = r.organization_id
                             /\ u.provider = r.provider /\ u.external_id = r.external_id
                             /\ u.name = Doc.repository[1].full_name[1]
                             /\ u.url = Doc.repository[1].html_url[1]
                             /\ \A v \in repositories : v.id = r.id => v = u
                       /\ (IsPush(Req) /\ last.status = 204)
                             => \A i \in 1..Len(Entries) :
                                   ~Skipped(Entries[i])
                                      => \E c \in commits :
                                            /\ c.repository_id = r.id
                                            /\ c.key = Entries[i].id[1]
                                            /\ c.organization_id = o

\* C14 witness: a push answered 204 that resolved to a row stored under another
\* name and url, and whose Commit was written by this delivery.
C14_Witness ==
    /\ Served /\ IsPush(Req) /\ HasRepoUrl(Req) /\ last.status = 204
    /\ \E o \in InvokedOrgs : \E r \in Tracked(last.before, o) :
          /\ r.name # Doc.repository[1].full_name[1]
          /\ r.url # Doc.repository[1].html_url[1]
          /\ \E c \in commits \ last.before.commits : c.repository_id = r.id

\* ------------------------------------------------------ signature and secret

\* the secrets on which HMAC is injective in the key: those that are their own key
\* block (no longer than the block, no trailing NUL)
InjectiveOn(secret) == HmacKey(secret) = secret

\* C15: whenever the view evaluates check_signature(body, secret, signature), the
\* check passes exactly when the signature is the digest of that body under that
\* secret (the whole composite secret field); a signature made for another body,
\* under another key, or any other signature is refused with 400
\* (gitea.webhook.invalid-signature), and the check never ends the request with an
\* unhandled error.
C15_SignatureCorrect ==
    (Served /\ CheckIndex("signature") > 0)
        => /\ (Req.signature[1] = HmacHex(Doc.secret[1], Req.body))
                 <=> last.reason # "gitea.webhook.invalid-signature"
           /\ (Req.signature[1] = HmacHex(Doc.secret[1], Req.body))
                 <=> CheckIndex("integration") > 0
           /\ (Req.signature[1] # HmacHex(Doc.secret[1], Req.body))
                 => (last.status = 400 /\ StoreUnchanged)
           /\ InjectiveOn(Doc.secret[1])
                 => ((Req.signature[1].key = Doc.secret[1] /\ Req.signature[1].msg = Req.body)
                        <=> last.reason # "gitea.webhook.invalid-signature")

\* C15 witness: a signature over the right body under the webhook secret half
\* instead of the whole composite secret, refused by the signature check.
C15_Witness ==
    /\ Served /\ CheckIndex("signature") > 0
    /\ Req.signature[1].msg = Req.body
    /\ Req.signature[1].key = SecretHalf(Doc.secret[1])
    /\ InstallationOf(Req).metadata.webhook_secret = Req.signature[1].key
    /\ last.reason = "gitea.webhook.invalid-signature" /\ last.status = 400

\* C16 as stated: the composite secret field is split on its first '#': a field with a '#',
\* a non-empty part before the first '#' and a non-empty rest is parsed (it is not
\* refused by the secret parsing, also when the rest holds further '#'), and a
\* field with no '#', an empty external id or an empty webhook secret is answered 400.
C16_SplitOnFirstHash ==
    (Served /\ Readable(Req) /\ Doc.secret # None)
        => IF \/ HashCount(Doc.secret[1]) = 0
              \/ IdHalf(Doc.secret[1]) = <<>>
              \/ SecretHalf(Doc.secret[1]) = <<>>
           THEN last.status = 400 /\ last.invoked = <<>>
           ELSE last.reason # "gitea.webhook.invalid-secret" /\ CheckIndex("signature") > 0

\* C16 amended: the composite secret field is split on every '#' and must give
\* exactly two parts.  A field with no '#' or with more than one '#' is refused by
\* the secret parsing (400, gitea.webhook.invalid-secret) before the signature is
\* checked; a field with one '#' is parsed, the part before the '#' being the
\* external id the installation is looked up by and the part after it the webhook
\* secret compared with the stored one; such a field with an empty external id or
\* an empty webhook secret never reaches a handler and leaves the store as it was:
\* it is answered 400 by a later check when the field can be encoded as UTF-8, and
\* with 400 or an unhandled error (500) at the signature check when it cannot.
C16_SplitExactlyTwo ==
    (Served /\ Readable(Req) /\ Doc.secret # None)
        => /\ HashCount(Doc.secret[1]) # 1
                 => /\ last.status = 400 /\ last.reason = "gitea.webhook.invalid-secret"
                    /\ CheckIndex("signature") = 0 /\ last.invoked = <<>>
           /\ HashCount(Doc.secret[1]) = 1
                 => /\ last.reason # "gitea.webhook.invalid-secret"
                    /\ CheckIndex("signature") > 0
                    /\ CheckIndex("token") > 0
                          => \E i \in integrations : i.external_id = IdHalf(Doc.secret[1])
                    /\ (CheckIndex("token") > 0 /\ last.status # 400)
                          => \E i \in integrations :
                                /\ i.external_id = IdHalf(Doc.secret[1])
                                /\ i.metadata.webhook_secret = SecretHalf(Doc.secret[1])
                    /\ (IdHalf(Doc.secret[1]) = <<>> \/ SecretHalf(Doc.secret[1]) = <<>>)
                          => /\ last.invoked = <<>> /\ StoreUnchanged
                             /\ last.status \in {400, 500}
                             /\ last.status = 500 => CheckIndex("integration") = 0
                             /\ Encodable(Doc.secret[1]) => last.status = 400

\* C16 witness: a correctly signed request whose secret field is a registered
\* composite secret followed by a further '#' part, refused by the secret parsing.
C16_Witness ==
    /\ Served /\ Readable(Req) /\ Doc.secret # None
    /\ HashCount(Doc.secret[1]) = 2
    /\ \E i \in integrations : i.external_id = IdHalf(Doc.secret[1])
    /\ Req.signature[1] = HmacHex(Doc.secret[1], Req.body)
    /\ last.status = 400 /\ last.reason = "gitea.webhook.invalid-secret"

\* ------------------------------------------------------ concurrent deliveries

AllDone == \A w \in Workers : workers[w].phase = "done"

\* the Repository rows the request of a process resolves to
ConcTracked(w) ==
    { r \in repositories :
        /\ r.provider = "integrations:gitea"
        /\ r.external_id = <<"git.example", ":",
                             workers[w].request.body.doc.repository[1].full_name[1]>>
        /\ \E i \in integrations :
              /\ i.external_id = IdHalf(workers[w].request.body.doc.secret[1])
              /\ \E k \in 1..Len(i.organizations) : i.organizations[k] = r.organization_id }

\* the entries of the request of a process (none in a pull_request event)
ConcEntries(w) ==
    IF workers[w].request.body.doc.commits = None THEN <<>>
    ELSE workers[w].request.body.doc.commits[1]

\* C17: while two pushes that carry the same commit key for the same repository
\* are served with their store statements interleaved in any order, there is never
\* more than one Commit per (repository, key); a create that loses leaves the row
\* that was there untouched; and once both requests are answered, both answers are
\* 204 and every entry of either payload has exactly one Commit in every repository
\* the request resolves to.
C17_ConcurrentDuplicates ==
    /\ \A c, d \in commits : (c.repository_id = d.repository_id /\ c.key = d.key) => c = d
    /\ \A w \in Workers : workers[w].lost \subseteq commits
    /\ AllDone
         => \A w \in Workers :
               /\ workers[w].status = 204
               /\ \A r \in ConcTracked(w) : \A i \in 1..Len(ConcEntries(w)) :
                     Cardinality(CommitsOf(db, r.id, ConcEntries(w)[i].id[1])) = 1

\* C17 witness: both requests answered 204 after each of them lost a create to the
\* other (which no serial order of the two requests produces).
C17_Witness ==
    /\ AllDone
    /\ \A w \in Workers : workers[w].status = 204 /\ workers[w].lost # {}
    /\ \E w, x \in Workers :
          /\ w # x
          /\ \E i \in 1..Len(ConcEntries(w)) : \E j \in 1..Len(ConcEntries(x)) :
                ConcEntries(w)[i].id = ConcEntries(x)[j].id

\* ---------------------------------------------------------------- authors

\* the entries of the last push that name an author email and are not skipped
Sightings(email) ==
    { i \in 1..Len(Entries) :
        /\ ~Skipped(Entries[i]) /\ Entries[i].author # None
        /\ Entries[i].author[1].email = Some(email) }

\* the author name of the first sighting of an email in the last event
FirstName(email) ==
    IF Req.event_type[1] = "push"
    THEN LET first == CHOOSE i \in Sightings(email) : \A j \in Sightings(email) : i <= j
         IN  Entries[first].author[1].name[1]
    ELSE Pr.user[1].username[1]

\* C18: there is at most one CommitAuthor per (organization, email); a delivery
\* leaves every CommitAuthor row that existed as it was (a later sighting with
\* another name changes nothing); a row it creates carries the name of the first
\* sighting of the email in the event; and every Commit a push writes points to the
\* CommitAuthor of its organization and its entry's email (so the commits of one
\* email in one event share their CommitAuthor).
C18_AuthorFirstWriterWins ==
    /\ \A a, b \in commit_authors :
          (a.organization_id = b.organization_id /\ a.email = b.email) => a = b
    /\ Served
         => /\ last.before.commit_authors \subseteq commit_authors
            /\ \A a \in commit_authors \ last.before.commit_authors :
                  a.name = FirstName(a.email)
            /\ \A c \in commits \ last.before.commits :
                  \E i \in 1..Len(Entries) :
                     /\ Entries[i].id = Some(c.key)
                     /\ Entries[i].message = Some(c.message)
                     /\ IF AuthorDiscardedEmail(Entries[i].author[1].email[1])
                        THEN c.author = None
                        ELSE \E a \in commit_authors :
                                /\ c.author = Some(a.id)
                                /\ a.organization_id = c.organization_id
                                /\ a.email = Entries[i].author[1].email[1]

\* C18 witness: a push answered 204 with two entries of one email under different
\* names, for an organization that already had a CommitAuthor of that email under a
\* third name; both Commits are written by this delivery.
C18_Witness ==
    /\ Served /\ IsPush(Req) /\ last.status = 204
    /\ \E i, j \in 1..Len(Entries) : \E a \in last.before.commit_authors :
          /\ i < j
          /\ Entries[i].author[1].email = Some(a.email)
          /\ Entries[j].author[1].email = Some(a.email)
          /\ Entries[i].author[1].name # Entries[j].author[1].name
          /\ Entries[i].author[1].name # Some(a.name)
          /\ Entries[j].author[1].name # Some(a.name)
          /\ \E c, d \in commits \ last.before.commits :
                /\ c.key = Entries[i].id[1] /\ d.key = Entries[j].id[1]
                /\ c.author = Some(a.id) /\ d.author = Some(a.id)

\* ------------------------------------------------------------ order of pushes

\* the pushes whose two orders are compared: plain entries, shared keys with the
\* same and with different content, a skipped entry, and lists that fail midway
OrderLists ==
    { <<PlainA>>, <<PlainB>>, <<PlainA, PlainB>>, <<PlainB, PlainA>>, <<PlainA, PlainC>>,
      <<Entry(Some("k2"), Some("add test"), Some("Cyd"), Some(JNull), Some(Ts2))>>,
      <<Entry(Some("k2"), Some("merge #skipsentry"), Some("Ann"), Some("a@x"), Some(Ts2))>>,
      <<PlainA, [PlainB EXCEPT !.message = None], PlainC>>,
      <<Entry(None, Some("add test"), Some("Bob"), Some("b@x"), Some(Ts2)), PlainA>> }

OrderRequests ==
    { Delivery(CompositeSecret(Built1), Some("push"), Repository(Some(RepoName)),
               Some(l), None) : l \in OrderLists }

\* the store after a request is served from a store
After(store, request) == dispatch(store, integrations, request, host).db

\* the Commit rows of a store without their ids, the author given by its email
CommitView(store) ==
    { [repository_id |-> c.repository_id, key |-> c.key, message |-> c.message,
       date_added |-> c.date_added,
       author |-> IF c.author = None THEN None
                  ELSE Some(AuthorEmailOf(store, c.author[1]))] : c \in store.commits }

CommitKeys(store) ==
    { [repository_id |-> c.repository_id, key |-> c.key] : c \in store.commits }

\* the entries of a request the handler does not skip and that carry an id
Carried(request) ==
    { request.body.doc.commits[1][i] : i \in
        { j \in 1..Len(request.body.doc.commits[1]) :
            /\ ~Skipped(request.body.doc.commits[1][j])
            /\ request.body.doc.commits[1][j].id # None } }

\* two pushes give the same message, author email and timestamp to every key they share
Agree(e1, e2) ==
    \A c \in Carried(e1), d \in Carried(e2) :
        c.id = d.id => (/\ c.message = d.message /\ c.timestamp = d.timestamp
                        /\ c.author # None /\ d.author # None
                        /\ c.author[1].email = d.author[1].email)

\* the stores the two orders start from: the initial ones and those one delivery away
OrderStart == delivered <= 1

\* C19 as stated: from any store, two accepted pushes for the same repository leave
\* the same Commit records (repository, key, message, author, timestamp) in
\* whichever order they are served.
C19_OrderIndependent ==
    OrderStart =>
        \A e1 \in OrderRequests :
           LET s1 == After(db, e1)
           IN  \A e2 \in OrderRequests :
                  CommitView(After(s1, e2)) = CommitView(After(After(db, e2), e1))

\* C19 amended: two accepted pushes for the same repository leave Commit records
\* for the same (repository, key) pairs in whichever order they are served, and the
\* same records (message, author, timestamp) when they give the same content to
\* every key they share; for a key they give different content to, the record is
\* the one the push served first wrote.
C19_OrderIndependentOnAgreement ==
    OrderStart =>
        \A e1 \in OrderRequests :
           LET s1 == After(db, e1)
           IN  \A e2 \in OrderRequests :
                  LET s12 == After(s1, e2)
                      s21 == After(After(db, e2), e1)
                  IN  /\ CommitKeys(s12) = CommitKeys(s21)
                      /\ Agree(e1, e2) => CommitView(s12) = CommitView(s21)
                      /\ CommitView(s1) \subseteq CommitView(s12)

\* C19 witness: two different pushes that share a key with the same content were
\* served one after the other from an empty history, both answered 204, and the
\* Commit records are those of the opposite order.
C19_Witness ==
    /\ Served /\ delivered = 2 /\ last.status = 204 /\ Req \in OrderRequests
    /\ \E e1 \in OrderRequests : \E r0 \in InitialRepositories :
          /\ e1 # Req /\ Agree(e1, Req)
          /\ \E c \in Carried(e1), d \in Carried(Req) : c.id = d.id
          /\ \E c \in Carried(e1) : \A d \in Carried(Req) : c.id # d.id
          /\ \A runtime \in Runtimes :
                dispatch(Store(r0, {}, {}, {}), integrations, e1, runtime).status = 204
          /\ After(Store(r0, {}, {}, {}), e1) = last.before
          /\ last.before.commits # {}
          /\ CommitView(db) = CommitView(After(After(Store(r0, {}, {}, {}), Req), e1))

\* ------------------------------------------------------- metadata fixpoint

\* C20: after the handler of an organization has processed an accepted event for a
\* Repository, update_repo_data finds nothing to update when the same event is
\* processed again: the condition of lines 64-68 is false on the row it left,
\* whatever name, url and config the row had before.
C20_RefreshFixpoint ==
    (Served /\ Accepted(Req) /\ HasRepoUrl(Req))
        => \A o \in InvokedOrgs : \A r \in Tracked(db, o) : ~RepoNeedsUpdate(r, Doc)

\* ------------------------------------------------------------ token refresh

\* C21: a call of request makes at most one refresh_auth and at most two
\* _request (the first and one retry); when it has returned or raised,
\* is_refreshing_token is False; and a call whose first _request is refused as
\* unauthorized makes a refresh_auth, whatever the calls before it did.
C21_RefreshBoundedAndReusable ==
    client.last # None
        => /\ client.last[1].refreshes <= 1
           /\ Len(client.last[1].sent) <= 2
           /\ client.is_refreshing_token = FALSE
           /\ client.last[1].first = "ApiUnauthorized" => client.last[1].refreshes = 1

====
